---- MODULE Spec2Model ----
(***************************************************************************)
(* A model of the partition engine of REcover (huku-/recover): the State   *)
(* bit-vector (state.py), the compile-unit map (cu_map.py), the optimizer  *)
(* convergence loop (optimizer.py), the brute-force optimizer              *)
(* (optimizers/brute_force.py) with the modularity fitness function        *)
(* (fitness_functions/modularity.py) and the estimators (estimators/).     *)
(*                                                                         *)
(* Python lists are sequences; a Python index i is the TLA+ index i + 1.   *)
(* Every specification below leaves the variables of the other parts at    *)
(* their idle values.                                                      *)
(***************************************************************************)
EXTENDS Integers, Sequences, FiniteSets, TLC

VARIABLES
    \* state.py: the State under test and the values computed from it
    st_orig,        \* the input: a State or a list of compile-units
    st_state,       \* the current State (NoState when there is none)
    st_cu_list,     \* the current list of compile-units (<<>> when none)
    st_trail,       \* the conversions applied to the input, in order
    st_k,           \* the argument of the last siblings() call (0: none)
    st_sibs,        \* what the last siblings() call yielded, in order
    \* cu_map.py: the compile-unit map
    funcs,          \* CUMap._funcs
    func_to_cu,     \* CUMap._func_to_cu
    \* optimizer.py: the locals of Optimizer.optimize()
    opt_pc,         \* "idle", "while" (loop test), "for" (in a round), "done"
    modified_cus,   \* modified_cus
    todo,           \* the ids of set(modified_cus) the for loop has yet to visit
    cu_map_ids,     \* cu_map_ids
    num_rounds,     \* num_rounds
    prev_num_changes, \* prev_num_changes
    num_changes,    \* num_changes
    last_update,    \* the last _update_cu_map call: its arguments and results
    num_moved,      \* labels changed by all _update_cu_map calls so far
    round_commits,  \* commits of _optimize in the current round
    seen_cu_ids,    \* the ids of the CUs the map held at any time of the run
    warned,         \* "Optimization completed with recursion" was logged
    \* optimizers/brute_force.py and the program data
    pdg,            \* data.pdg
    cu_scores,      \* BruteForce._cu_scores
    \* cu_map.py: persistence
    file,           \* the file written by save_json or save_pickle
    saved,          \* the map as it was when the file was written
    loaded,         \* the outcome of CUMap.load on the file
    \* estimators/*.py: the estimator and the locals of _estimate()
    est_pc,         \* "idle", "start", "ap_for", "while", "inner", "done", "raised"
    est_kind,       \* "APSNSE", "APSPSE", "AGGLNSE" or "AGGLPSE"
    est_raised,     \* the exception _estimate() raised ("" when none)
    afcg,           \* self._afcg
    aps,            \* sorted(networkx.articulation_points(afcg))
    ap_pos,         \* the number of articulation points the for loop has taken
    ap_i,           \* i
    ap_prev_j,      \* prev_j
    cu_graph,       \* cu_graph
    cache,          \* cache
    cache_stale,    \* the CU ids whose members changed after their cache entry was set
    func_idx,       \* func_idx
    next_func_idx,  \* next_func_idx
    tmp_num_changes, \* tmp_num_changes
    min_num_edges,  \* min_num_edges (-1 while unbound)
    aggl_num_rounds, \* num_rounds
    \* __init__.py and plugins/ida_pro/recover.py: one analyze() call
    drv_pc,         \* "idle", "plugin", "segment", "estimate", "optimize",
                    \* "save", "done", "raised"
    drv_call,       \* the arguments of the call ("" for one not given)
    drv_args,       \* the arguments recover.analyze() runs with
    drv_raised,     \* the exception raised ("" when none)
    drv_estimator,  \* where the initial map came from ("" before that)
    drv_fitness,    \* the fitness function class chosen ("" when none)
    drv_optimizer,  \* the optimizer class run ("" when none)
    drv_files,      \* the files written
    \* cu_map.py: the last call that relabelled the map, where calls are recorded
    map_call,       \* the method and func_to_cu as it was before the call
    \* graphs/graphs.py and util.py: a graph under construction (pdg) and a
    \* view of it
    graph_view,     \* the last view made of pdg, or what making it raised
    graph_calls,    \* the calls made on pdg and on the view functions so far
    \* fitness_function.py and fitness_functions/modularity.py: one Modularity
    fit_pc,         \* "idle", "new", "ready", "scored", "raised"
    fit_init_state, \* init_state
    fit_self,       \* _nodes, _data_refs, _in_degrees, _out_degrees and _m
    fit_raised,     \* the exception raised ("" when none)
    fit_scored,     \* the last score() call: its state and the value returned
    \* optimizers/genetic.py: the callables handed to pygad.GA for one pair
    ga_pc,          \* "idle", "select", "crossed", "mutated", "raised"
    ga_num_bits,    \* num_bits
    ga_parents,     \* the two solutions selected for mating
    ga_offspring,   \* the children made by crossover, then mutated
    ga_raised       \* the exception raised ("" when none)

st_vars == <<st_orig, st_state, st_cu_list, st_trail, st_k, st_sibs>>

map_vars == <<funcs, func_to_cu>>

opt_vars == <<opt_pc, modified_cus, todo, cu_map_ids, num_rounds,
              prev_num_changes, num_changes, last_update, num_moved,
              round_commits, seen_cu_ids, warned>>

bf_vars == <<pdg, cu_scores>>

io_vars == <<file, saved, loaded>>

est_vars == <<est_pc, est_kind, est_raised, afcg, aps, ap_pos, ap_i, ap_prev_j,
              cu_graph, cache, cache_stale, func_idx, next_func_idx, tmp_num_changes,
              min_num_edges, aggl_num_rounds>>

drv_vars == <<drv_pc, drv_call, drv_args, drv_raised, drv_estimator,
              drv_fitness, drv_optimizer, drv_files>>

\* The parts added to the model after the estimators
gr_vars == <<graph_view, graph_calls>>

fit_vars == <<fit_pc, fit_init_state, fit_self, fit_raised, fit_scored>>

ga_vars == <<ga_pc, ga_num_bits, ga_parents, ga_offspring, ga_raised>>

more_vars == <<drv_vars, map_call, gr_vars, fit_vars, ga_vars>>

vars == <<st_vars, map_vars, opt_vars, bf_vars, io_vars, est_vars, more_vars>>

\* What each part leaves alone
not_st_vars == <<map_vars, opt_vars, bf_vars, io_vars, est_vars, more_vars>>
not_opt_vars == <<st_vars, bf_vars, io_vars, est_vars, more_vars>>
not_brute_vars == <<st_vars, io_vars, est_vars, more_vars>>
not_map_vars == <<st_vars, opt_vars, bf_vars, est_vars, drv_vars, gr_vars, fit_vars,
                  ga_vars>>
not_est_vars == <<st_vars, opt_vars, cu_scores, io_vars, more_vars>>
not_drv_vars == <<st_vars, map_vars, opt_vars, bf_vars, io_vars, est_vars, map_call,
                  gr_vars, fit_vars, ga_vars>>
not_gr_vars == <<st_vars, map_vars, opt_vars, cu_scores, io_vars, est_vars, drv_vars,
                 map_call, fit_vars, ga_vars>>
not_fit_vars == <<st_vars, map_vars, opt_vars, bf_vars, io_vars, est_vars, drv_vars,
                  map_call, gr_vars, ga_vars>>
not_ga_vars == <<st_vars, map_vars, opt_vars, bf_vars, io_vars, est_vars, drv_vars,
                 map_call, gr_vars, fit_vars>>

-----------------------------------------------------------------------------
(* Bounds of the model *)

\* Largest number of functions of a State under test
MaxWidth == 5

\* Largest num_bits of a pair the genetic callables are made for
MaxGaBits == 5

\* Largest number of functions of a program handed to Optimizer.optimize()
MaxOptFuncs == 4

\* Largest compile-unit id of the map handed to Optimizer.optimize()
MaxOptCuId == 3

\* Optimizer.optimize(): no further commit once num_changes has reached this
MaxOptChanges == 8

\* BruteForce: functions and control edges of the PDG
MaxBruteFuncs == 4
MaxPdgEdges == 3

\* CUMap persistence: functions of the map and largest label given to one
MaxMapFuncs == 3
MaxMapCuId == 2

\* Estimators: functions and control edges of the exported program, and the
\* functions of the longest call chain f0 -> f1 -> ... given to them as well
MaxEstFuncs == 4
MaxEstEdges == 3
MaxPathFuncs == 5

\* Program graphs built call by call: the calls made on the graph and on the
\* view functions
MaxGraphCalls == 3

\* Modularity: the functions of the program it is built for
MaxFitFuncs == 3

\* Genetic: the functions of the program
MaxGeneticFuncs == 3

-----------------------------------------------------------------------------
(* The values of absent objects, and every part at rest *)

\* None, where a State is expected
NoState == [bits |-> 0, funcs |-> <<>>]

\* None, where a CUInfo is expected
NoGraph == [segment |-> <<>>, node_type |-> <<>>, edges |-> {}]
NoCuGraph == [nodes |-> {}, count |-> <<>>]
NoFile == [suffix |-> "", format |-> "", content |-> <<>>]
NoMap == [funcs |-> <<>>, func_to_cu |-> <<>>]
NoLoad == [status |-> "", funcs |-> <<>>, func_to_cu |-> <<>>]
NoCu == [cu_id |-> -1, bounds |-> <<0, 0>>, funcs |-> <<>>]

\* No _update_cu_map call yet
NoUpdate == [before |-> <<>>, state |-> NoState, cu |-> NoCu, next_cu |-> NoCu,
             num_changes |-> 0, new_cu_id |-> -1]

OptIdle ==
    /\ opt_pc = "idle"
    /\ modified_cus = {}
    /\ todo = {}
    /\ cu_map_ids = <<>>
    /\ num_rounds = 0
    /\ prev_num_changes = 0
    /\ num_changes = 0
    /\ last_update = NoUpdate
    /\ num_moved = 0
    /\ round_commits = 0
    /\ seen_cu_ids = {}
    /\ warned = FALSE

StIdle ==
    /\ st_orig = NoState
    /\ st_state = NoState
    /\ st_cu_list = <<>>
    /\ st_trail = <<>>
    /\ st_k = 0
    /\ st_sibs = <<>>

MapIdle ==
    /\ funcs = <<>>
    /\ func_to_cu = <<>>

BfIdle ==
    /\ pdg = NoGraph
    /\ cu_scores = <<>>

IoIdle ==
    /\ file = NoFile
    /\ saved = NoMap
    /\ loaded = NoLoad

EstIdle ==
    /\ est_pc = "idle"
    /\ est_kind = ""
    /\ est_raised = ""
    /\ afcg = NoGraph
    /\ aps = <<>>
    /\ ap_pos = 0
    /\ ap_i = 0
    /\ ap_prev_j = 0
    /\ cu_graph = NoCuGraph
    /\ cache = <<>>
    /\ cache_stale = {}
    /\ func_idx = 0
    /\ next_func_idx = 0
    /\ tmp_num_changes = 0
    /\ min_num_edges = -1
    /\ aggl_num_rounds = 0

\* No arguments
NoArgs == [entry |-> "", path |-> "", estimator |-> "", load_estimation |-> FALSE,
           optimizer |-> "", fitness_function |-> "", num_segs |-> 0]

DrvIdle ==
    /\ drv_pc = "idle"
    /\ drv_call = NoArgs
    /\ drv_args = NoArgs
    /\ drv_raised = ""
    /\ drv_estimator = ""
    /\ drv_fitness = ""
    /\ drv_optimizer = ""
    /\ drv_files = {}

\* No call on the map yet
NoCall == [method |-> "", before |-> <<>>]

\* No view
NoView == [kind |-> "", sel |-> 0, graph |-> NoGraph, raised |-> ""]

GrIdle ==
    /\ graph_view = NoView
    /\ graph_calls = 0

\* No fitness function object, no score() call
NoFitness == [nodes |-> {}, data_refs |-> <<>>, in_degrees |-> <<>>,
              out_degrees |-> <<>>, m |-> 0]
NoScore == [state |-> NoState, value |-> 0]

FitIdle ==
    /\ fit_pc = "idle"
    /\ fit_init_state = NoState
    /\ fit_self = NoFitness
    /\ fit_raised = ""
    /\ fit_scored = NoScore

\* The parts added after the estimators, at rest
GaIdle ==
    /\ ga_pc = "idle"
    /\ ga_num_bits = 0
    /\ ga_parents = <<>>
    /\ ga_offspring = <<>>
    /\ ga_raised = ""

MoreIdle == DrvIdle /\ map_call = NoCall /\ GrIdle /\ FitIdle /\ GaIdle

-----------------------------------------------------------------------------
(* Helpers: Python integers and lists *)

\* bit j of the non-negative integer s: (s >> j) & 1
Bit(s, j) == (s \div (2 ^ j)) % 2

\* s | (1 << j)
SetBit(s, j) == IF Bit(s, j) = 1 THEN s ELSE s + 2 ^ j

RECURSIVE bit_count(_)
\* int.bit_count()
bit_count(s) == IF s = 0 THEN 0 ELSE (s % 2) + bit_count(s \div 2)

RECURSIVE Chain(_)
\* itertools.chain(*lists) as a list
Chain(lists) == IF lists = <<>> THEN <<>> ELSE Head(lists) \o Chain(Tail(lists))

RECURSIVE Reversed(_)
Reversed(seq) == IF seq = <<>> THEN <<>> ELSE Append(Reversed(Tail(seq)), Head(seq))

RECURSIVE SumSeq(_)
SumSeq(seq) == IF seq = <<>> THEN 0 ELSE Head(seq) + SumSeq(Tail(seq))

Range(seq) == {seq[i] : i \in 1..Len(seq)}

\* The function addresses of a program of n functions: strictly increasing
FuncEas(n) == [i \in 1..n |-> 16 * i]

-----------------------------------------------------------------------------
(* state.py: class State *)

\* State.__new__
State(bits, fs) == [bits |-> bits, funcs |-> fs]

RECURSIVE ToCuListInner(_, _, _, _)
\* The inner while of to_cu_list: extends cu while bit j - 1 is clear.
\* Returns <<cu, i, j>>.
ToCuListInner(s, cu, i, j) ==
    IF j - 1 >= 0 /\ Bit(s.bits, j - 1) = 0
    THEN ToCuListInner(s, Append(cu, s.funcs[(i + 1) + 1]), i + 1, j - 1)
    ELSE <<cu, i, j>>

RECURSIVE ToCuListLoop(_, _, _, _)
\* The outer while of to_cu_list
ToCuListLoop(s, cu_list, i, j) ==
    IF j >= 0
    THEN IF Bit(s.bits, j) = 1
         THEN LET r == ToCuListInner(s, <<s.funcs[i + 1]>>, i, j)
              IN  ToCuListLoop(s, Append(cu_list, r[1]), r[2] + 1, r[3] - 1)
         ELSE ToCuListLoop(s, cu_list, i + 1, j - 1)
    ELSE cu_list

\* to_cu_list starting its scan below the highest bit
to_cu_list_skipmsb(s) == ToCuListLoop(s, <<>>, 0, Len(s.funcs) - 2)

\* State.to_cu_list
to_cu_list(s) == ToCuListLoop(s, <<>>, 0, Len(s.funcs) - 1)

RECURSIVE FromCuListLoop(_, _, _)
\* The for loop of from_cu_list over reversed(cu_list)
FromCuListLoop(rev, state, i) ==
    IF rev = <<>> THEN state
    ELSE FromCuListLoop(Tail(rev), SetBit(state, i + Len(Head(rev)) - 1),
                        i + Len(Head(rev)))

\* from_cu_list setting bit i + len(cu) instead of bit i + len(cu) - 1
from_cu_list_offbyone(cu_list) ==
    LET sizes == [c \in 1..Len(cu_list) |-> Len(cu_list[c])]
        rev == Reversed(sizes)
        ends == [c \in 1..Len(rev) |-> SumSeq(SubSeq(rev, 1, c))]
    IN  State(SumSeq([c \in 1..Len(ends) |-> 2 ^ ends[c]]), Chain(cu_list))

\* State.from_cu_list
from_cu_list(cu_list) == State(FromCuListLoop(Reversed(cu_list), 0, 0), Chain(cu_list))

RECURSIVE Combinations(_, _, _)
\* itertools.combinations(range(lo, hi), r): the r-tuples in lexicographic order
Combinations(lo, hi, r) ==
    IF r = 0 THEN << <<>> >>
    ELSE IF lo >= hi THEN <<>>
    ELSE LET with == Combinations(lo + 1, hi, r - 1)
         IN  [c \in 1..Len(with) |-> <<lo>> \o with[c]] \o Combinations(lo + 1, hi, r)

\* siblings choosing the low bits among all size bits, the highest included
siblings_allbits(s, num_cus) ==
    LET size == Len(s.funcs)
        combs == Combinations(0, size, num_cus - 1)
    IN  [c \in 1..Len(combs) |->
            State(SetBit(SumSeq([b \in 1..Len(combs[c]) |-> 2 ^ combs[c][b]]), size - 1),
                  s.funcs)]

\* State.siblings: the states it yields, in order
siblings(s, num_cus) ==
    LET size == Len(s.funcs)
        combs == Combinations(0, size - 1, num_cus - 1)
    IN  [c \in 1..Len(combs) |->
            State(2 ^ (size - 1) + SumSeq([b \in 1..Len(combs[c]) |-> 2 ^ combs[c][b]]),
                  s.funcs)]

-----------------------------------------------------------------------------
(* The State part: conversions applied to every State and every split *)

RECURSIVE Splits(_)
\* Every split of the list funcs into non-empty contiguous sublists
Splits(fs) ==
    IF fs = <<>> THEN { <<>> }
    ELSE UNION { { <<SubSeq(fs, 1, p)>> \o rest :
                     rest \in Splits(SubSeq(fs, p + 1, Len(fs))) } :
                 p \in 1..Len(fs) }

\* Every State of width n the program builds: bit n - 1 set
ValidStates(n) == { State(b, FuncEas(n)) : b \in (2 ^ (n - 1))..(2 ^ n - 1) }

StInit ==
    /\ MapIdle
    /\ OptIdle
    /\ BfIdle
    /\ IoIdle
    /\ EstIdle
    /\ MoreIdle
    /\ st_trail = <<>>
    /\ st_k = 0
    /\ st_sibs = <<>>
    /\ \E n \in 1..MaxWidth :
        \/ \E s \in ValidStates(n) :
             st_orig = s /\ st_state = s /\ st_cu_list = <<>>
        \/ \E cus \in Splits(FuncEas(n)) :
             st_orig = cus /\ st_state = NoState /\ st_cu_list = cus

\* s.to_cu_list() on the current State
DoToCuList ==
    /\ st_state # NoState
    /\ st_k = 0
    /\ Len(st_trail) < 2
    /\ st_cu_list' = to_cu_list(st_state)
    /\ st_state' = NoState
    /\ st_trail' = Append(st_trail, "to_cu_list")
    /\ UNCHANGED <<st_orig, st_k, st_sibs, not_st_vars>>

\* State.from_cu_list(cus) on the current list of compile-units
DoFromCuList ==
    /\ st_cu_list # <<>>
    /\ st_k = 0
    /\ Len(st_trail) < 2
    /\ st_state' = from_cu_list(st_cu_list)
    /\ st_cu_list' = <<>>
    /\ st_trail' = Append(st_trail, "from_cu_list")
    /\ UNCHANGED <<st_orig, st_k, st_sibs, not_st_vars>>

\* list(s.siblings(k)) on the current State
DoSiblings ==
    /\ st_state # NoState
    /\ st_k = 0
    /\ \E k \in 1..Len(st_state.funcs) :
        /\ st_k' = k
        /\ st_sibs' = siblings(st_state, k)
    /\ UNCHANGED <<st_orig, st_state, st_cu_list, st_trail, not_st_vars>>

StNext == DoToCuList \/ DoFromCuList \/ DoSiblings


-----------------------------------------------------------------------------
(* cu_map.py: class CUInfo and class CUMap.  A map is the pair of the      *)
(* sequences funcs and func_to_cu; the operators take them as fs and ftc.  *)

\* CUInfo(cu_id, bounds, funcs)
CUInfo(cu_id, bounds, cu_funcs) == [cu_id |-> cu_id, bounds |-> bounds, funcs |-> cu_funcs]

\* CUMap.__len__: len(set(self._func_to_cu))
LenCUMap(ftc) == Cardinality(Range(ftc))

\* CUMap._get_cu_index: self._func_to_cu.index(cu_id, start), or -1
GetCuIndex(ftc, cu_id, start) ==
    LET at == {i \in start..(Len(ftc) - 1) : ftc[i + 1] = cu_id}
    IN  IF at = {} THEN -1 ELSE CHOOSE i \in at : \A k \in at : i <= k

RECURSIVE RunEnd(_, _, _)
\* while j < len(func_to_cu) and func_to_cu[j] == cu_id: j += 1
RunEnd(ftc, cu_id, j) ==
    IF j < Len(ftc) /\ ftc[j + 1] = cu_id THEN RunEnd(ftc, cu_id, j + 1) ELSE j

\* CUMap._get_cu_info (with _get_cu_bounds and _get_cu_funcs)
GetCuInfo(fs, ftc, cu_id, start) ==
    LET i == GetCuIndex(ftc, cu_id, start)
    IN  IF i >= 0
        THEN LET j == RunEnd(ftc, cu_id, i)
             IN  CUInfo(cu_id, <<i, j>>, [k \in 1..(j - i) |-> fs[i + k]])
        ELSE NoCu

\* CUMap.get_first_cu
get_first_cu(fs, ftc) ==
    IF Len(ftc) > 0 THEN GetCuInfo(fs, ftc, ftc[1], 0) ELSE NoCu

\* CUMap.get_last_cu
get_last_cu(fs, ftc) ==
    IF Len(ftc) > 0 THEN GetCuInfo(fs, ftc, ftc[Len(ftc)], 0) ELSE NoCu

\* CUMap.get_next_cu
get_next_cu(fs, ftc, cu_info) ==
    LET i0 == GetCuIndex(ftc, cu_info.cu_id, 0)
    IN  IF i0 >= 0
        THEN LET i == RunEnd(ftc, cu_info.cu_id, i0)
             IN  IF i < Len(ftc) THEN GetCuInfo(fs, ftc, ftc[i + 1], i) ELSE NoCu
        ELSE NoCu

\* get_prev_cu that looks the previous CU up from index i - 1 on
get_prev_cu_from(fs, ftc, cu_info) ==
    LET i == GetCuIndex(ftc, cu_info.cu_id, 0)
    IN  IF i >= 1 THEN GetCuInfo(fs, ftc, ftc[(i - 1) + 1], i - 1) ELSE NoCu

\* CUMap.get_prev_cu
get_prev_cu(fs, ftc, cu_info) ==
    LET i == GetCuIndex(ftc, cu_info.cu_id, 0)
    IN  IF i >= 1 THEN GetCuInfo(fs, ftc, ftc[(i - 1) + 1], 0) ELSE NoCu

RECURSIVE WalkForward(_, _, _, _)
\* the CUs from cu_info on, following get_next_cu; fuel bounds the walk on a
\* map whose runs are not contiguous, where get_next_cu may cycle
WalkForward(fs, ftc, cu_info, fuel) ==
    IF cu_info = NoCu \/ fuel = 0 THEN <<>>
    ELSE <<cu_info>> \o WalkForward(fs, ftc, get_next_cu(fs, ftc, cu_info), fuel - 1)

RECURSIVE WalkBackward(_, _, _, _)
\* the CUs from cu_info back, following get_prev_cu, within fuel steps
WalkBackward(fs, ftc, cu_info, fuel) ==
    IF cu_info = NoCu \/ fuel = 0 THEN <<>>
    ELSE <<cu_info>> \o WalkBackward(fs, ftc, get_prev_cu(fs, ftc, cu_info), fuel - 1)

\* list(CUMap.get_cus(reverse=True))
get_cus_reverse(fs, ftc) == WalkBackward(fs, ftc, get_last_cu(fs, ftc), Len(ftc))

\* list(CUMap.get_cus())
get_cus(fs, ftc) == WalkForward(fs, ftc, get_first_cu(fs, ftc), Len(ftc))

\* CUMap.get_id: the text hashed by SHA-256, as the list of the sizes joined
\* by "|"; the digest is taken to be injective on it
\* get_id that hashes the ids of the compile-units in place of their sizes
get_id_labels(fs, ftc) ==
    LET cus == get_cus(fs, ftc)
    IN  [c \in 1..Len(cus) |-> cus[c].cu_id]

get_id(fs, ftc) ==
    LET cus == get_cus(fs, ftc)
    IN  [c \in 1..Len(cus) |-> Len(cus[c].funcs)]

\* get_next_cu_id without the + 1: the largest id in use
get_next_cu_id_max(ftc) ==
    CHOOSE m \in Range(ftc) : \A x \in Range(ftc) : x <= m

\* CUMap.get_next_cu_id: max(self._func_to_cu) + 1
get_next_cu_id(ftc) ==
    (CHOOSE m \in Range(ftc) : \A x \in Range(ftc) : x <= m) + 1

\* CUMap.get_cu_by_cu_id
get_cu_by_cu_id(fs, ftc, cu_id) == GetCuInfo(fs, ftc, cu_id, 0)

\* CUMap.get_cu_by_func_idx
get_cu_by_func_idx(fs, ftc, i) ==
    IF 0 <= i /\ i < Len(ftc) THEN GetCuInfo(fs, ftc, ftc[i + 1], 0) ELSE NoCu

\* set_cu_by_func_idx that labels the function before the one asked for
set_cu_by_func_idx_prev(ftc, i, cu_id) == [ftc EXCEPT ![i] = cu_id]

\* CUMap.set_cu_by_func_idx: the new func_to_cu
set_cu_by_func_idx(ftc, i, cu_id) == [ftc EXCEPT ![i + 1] = cu_id]

\* bisect.bisect_left on the sorted list fs
BisectLeft(fs, ea) == Cardinality({i \in 1..Len(fs) : fs[i] < ea})

\* CUMap.set_cu_by_func_ea: the new func_to_cu
set_cu_by_func_ea(fs, ftc, ea, cu_id) ==
    LET i == BisectLeft(fs, ea)
    IN  IF i # Len(fs) /\ fs[i + 1] = ea THEN set_cu_by_func_idx(ftc, i, cu_id) ELSE ftc

\* CUMap.get_cu_by_func_ea
get_cu_by_func_ea(fs, ftc, ea) ==
    LET i == BisectLeft(fs, ea)
    IN  IF i # Len(fs) /\ fs[i + 1] = ea THEN get_cu_by_func_idx(fs, ftc, i) ELSE NoCu

RECURSIVE RenumberRun(_, _, _, _)
\* the inner while of renumber: relabels the run of cu_id at i.  <<ftc, i>>
RenumberRun(ftc, cu_id, i, j) ==
    IF i < Len(ftc) /\ ftc[i + 1] = cu_id
    THEN RenumberRun([ftc EXCEPT ![i + 1] = j], cu_id, i + 1, j)
    ELSE <<ftc, i>>

RECURSIVE RenumberLoop(_, _, _)
\* the outer while of renumber
RenumberLoop(ftc, i, j) ==
    IF i < Len(ftc)
    THEN LET r == RenumberRun(ftc, ftc[i + 1], i, j)
         IN  RenumberLoop(r[1], r[2], j + 1)
    ELSE ftc

\* renumber() that leaves the labels as they are
renumber_identity(ftc) == ftc

\* renumber() that numbers the compile-units from 1
renumber_from_one(ftc) == RenumberLoop(ftc, 0, 1)

\* CUMap.renumber: the new func_to_cu
renumber(ftc) == RenumberLoop(ftc, 0, 0)

\* Every CU id occupies exactly one maximal run of ftc
Contiguous(ftc) ==
    \A i, k \in 1..Len(ftc) :
        (i < k /\ ftc[i] = ftc[k]) => \A x \in i..k : ftc[x] = ftc[i]

\* Every func_to_cu over n functions with contiguous runs and ids in 0..max_id
ContiguousMaps(n, max_id) ==
    {ftc \in [1..n -> 0..max_id] : Contiguous(ftc)}

-----------------------------------------------------------------------------
(* optimizer.py: class Optimizer *)

RECURSIVE SetCus(_, _, _, _, _)
\* for ea in eas: cu_map.set_cu_by_func_ea(ea, cu_id); num_changes += 1
\* Returns <<func_to_cu, num_changes>>.
SetCus(fs, ftc, eas, cu_id, n) ==
    IF eas = <<>> THEN <<ftc, n>>
    ELSE SetCus(fs, set_cu_by_func_ea(fs, ftc, Head(eas), cu_id), Tail(eas), cu_id, n + 1)

\* _update_cu_map that gives the new id to the last sublist of a 3-way split
\* and next_cu's id to the middle one
update_cu_map_swapped(fs, ftc, cu, next_cu, state) ==
    LET num_bits_set == bit_count(state.bits)
        cus == to_cu_list(state)
    IN  IF num_bits_set = 1
        THEN LET r0 == SetCus(fs, ftc, cus[1], cu.cu_id, 0)
             IN  [func_to_cu |-> r0[1], num_changes |-> r0[2], new_cu_id |-> -1]
        ELSE IF num_bits_set = 2
        THEN LET r0 == SetCus(fs, ftc, cus[1], cu.cu_id, 0)
                 r1 == SetCus(fs, r0[1], cus[2], next_cu.cu_id, r0[2])
             IN  [func_to_cu |-> r1[1], num_changes |-> r1[2], new_cu_id |-> -1]
        ELSE LET new_cu_id == get_next_cu_id(ftc)
                 r0 == SetCus(fs, ftc, cus[1], cu.cu_id, 0)
                 r1 == SetCus(fs, r0[1], cus[2], next_cu.cu_id, r0[2])
                 r2 == SetCus(fs, r1[1], cus[3], new_cu_id, r1[2])
             IN  [func_to_cu |-> r2[1], num_changes |-> r2[2], new_cu_id |-> new_cu_id]

\* Optimizer._update_cu_map (validate = False): the new func_to_cu and the
\* returned pair.  The assertions on the state are guards of the callers.
update_cu_map(fs, ftc, cu, next_cu, state) ==
    LET num_bits_set == bit_count(state.bits)
        cus == to_cu_list(state)
    IN  IF num_bits_set = 1
        THEN LET r0 == SetCus(fs, ftc, cus[1], cu.cu_id, 0)
             IN  [func_to_cu |-> r0[1], num_changes |-> r0[2], new_cu_id |-> -1]
        ELSE IF num_bits_set = 2
        THEN LET r0 == SetCus(fs, ftc, cus[1], cu.cu_id, 0)
                 r1 == SetCus(fs, r0[1], cus[2], next_cu.cu_id, r0[2])
             IN  [func_to_cu |-> r1[1], num_changes |-> r1[2], new_cu_id |-> -1]
        ELSE LET new_cu_id == get_next_cu_id(ftc)
                 r0 == SetCus(fs, ftc, cus[1], cu.cu_id, 0)
                 r1 == SetCus(fs, r0[1], cus[2], new_cu_id, r0[2])
                 r2 == SetCus(fs, r1[1], cus[3], next_cu.cu_id, r1[2])
             IN  [func_to_cu |-> r2[1], num_changes |-> r2[2], new_cu_id |-> new_cu_id]

\* The states a concrete _optimize may hand to _update_cu_map for the pair:
\* 1 to min(n, 3) set bits, bit n - 1 set, other than the pair's own state
\* (both BruteForce and Genetic commit only if max_state != state).
Candidates(state) ==
    LET n == Len(state.funcs)
        max_bits_set == IF n < 3 THEN n ELSE 3
    IN  {s \in UNION {Range(siblings(state, k)) : k \in 1..max_bits_set} :
            s.bits # state.bits}

\* optimize() up to the loop: cu_map_ids = [get_id()], the counters are 0,
\* modified_cus holds every CU id
OptStart ==
    /\ opt_pc = "while"
    /\ cu_map_ids = <<get_id(funcs, func_to_cu)>>
    /\ num_rounds = 0
    /\ prev_num_changes = 0
    /\ num_changes = 0
    /\ modified_cus = {get_cus(funcs, func_to_cu)[c].cu_id :
                          c \in 1..Len(get_cus(funcs, func_to_cu))}
    /\ todo = {}
    /\ last_update = NoUpdate
    /\ num_moved = 0
    /\ round_commits = 0
    /\ seen_cu_ids = Range(func_to_cu)
    /\ warned = FALSE

\* while modified_cus: num_rounds += 1; for cu_id in set(modified_cus): ...
OptBeginRound ==
    /\ opt_pc = "while"
    /\ modified_cus # {}
    /\ num_rounds' = num_rounds + 1
    /\ todo' = modified_cus
    /\ opt_pc' = "for"
    /\ round_commits' = 0
    /\ UNCHANGED seen_cu_ids
    /\ UNCHANGED <<map_vars, modified_cus, cu_map_ids, prev_num_changes,
                   num_changes, last_update, num_moved, warned, not_opt_vars>>

\* The for loop is at cu_id, which has a CU and a next CU:
\* if cu: ... if next_cu:
HasPair(cu_id) ==
    /\ opt_pc = "for"
    /\ cu_id \in todo
    /\ LET cu == get_cu_by_cu_id(funcs, func_to_cu, cu_id)
       IN  cu # NoCu /\ get_next_cu(funcs, func_to_cu, cu) # NoCu

\* The for loop is at cu_id, which has no CU or no next CU
HasNoPair(cu_id) ==
    /\ opt_pc = "for"
    /\ cu_id \in todo
    /\ LET cu == get_cu_by_cu_id(funcs, func_to_cu, cu_id)
       IN  cu = NoCu \/ get_next_cu(funcs, func_to_cu, cu) = NoCu

\* One pass of the for loop whose cu_id has no CU or no next CU:
\* modified_cus.discard(cu_id)
OptSkip(cu_id) ==
    /\ HasNoPair(cu_id)
    /\ modified_cus' = modified_cus \ {cu_id}
    /\ todo' = todo \ {cu_id}
    /\ UNCHANGED <<map_vars, opt_pc, cu_map_ids, num_rounds, prev_num_changes,
                   num_changes, last_update, num_moved, round_commits,
                   seen_cu_ids, warned, not_opt_vars>>

\* The rest of a pass of the for loop once _optimize(cu, next_cu) returned
\* (num_cu_changes, new_cu_id) and left the map at ftc
AfterOptimize(cu_id, cu, ftc, num_cu_changes, new_cu_id) ==
    LET prev_cu == get_prev_cu(funcs, ftc, cu)
        m1 == IF num_cu_changes > 0 /\ prev_cu # NoCu
              THEN modified_cus \cup {prev_cu.cu_id} ELSE modified_cus
        m2 == IF num_cu_changes = 0 THEN m1 \ {cu_id} ELSE m1
        m3 == IF new_cu_id >= 0 THEN m2 \cup {new_cu_id} ELSE m2
    IN  /\ modified_cus' = m3
        /\ num_changes' = num_changes + num_cu_changes
        /\ todo' = todo \ {cu_id}
        /\ func_to_cu' = ftc
        /\ UNCHANGED <<funcs, opt_pc, cu_map_ids, num_rounds, prev_num_changes,
                       warned, not_brute_vars>>

\* What a commit leaves in the history variables
Committed(cu, next_cu, state, r) ==
    /\ last_update' = [before |-> func_to_cu, state |-> state, cu |-> cu,
                       next_cu |-> next_cu, num_changes |-> r.num_changes,
                       new_cu_id |-> r.new_cu_id]
    /\ num_moved' = num_moved +
          Cardinality({p \in 1..Len(func_to_cu) : r.func_to_cu[p] # func_to_cu[p]})
    /\ round_commits' = round_commits + 1
    /\ seen_cu_ids' = seen_cu_ids \cup Range(r.func_to_cu)

\* One pass of the for loop in which _optimize commits nothing: it returns
\* (0, -1)
OptKeep(cu_id) ==
    /\ HasPair(cu_id)
    /\ LET cu == get_cu_by_cu_id(funcs, func_to_cu, cu_id)
       IN  AfterOptimize(cu_id, cu, func_to_cu, 0, -1)
    /\ UNCHANGED <<last_update, num_moved, round_commits, seen_cu_ids, bf_vars>>

\* One pass of the for loop in which _optimize, whatever its fitness function,
\* commits a state through _update_cu_map and returns what that returned
OptCommit(cu_id) ==
    /\ HasPair(cu_id)
    /\ LET cu == get_cu_by_cu_id(funcs, func_to_cu, cu_id)
           next_cu == get_next_cu(funcs, func_to_cu, cu)
       IN  /\ num_changes < MaxOptChanges
           /\ \E state \in Candidates(from_cu_list(<<cu.funcs, next_cu.funcs>>)) :
                LET r == update_cu_map(funcs, func_to_cu, cu, next_cu, state)
                IN  /\ AfterOptimize(cu_id, cu, r.func_to_cu, r.num_changes, r.new_cu_id)
                    /\ Committed(cu, next_cu, state, r)
    /\ UNCHANGED bf_vars

\* The end of a round that compares the fingerprint with the previous one only
OptEndRound_lastonly ==
    /\ opt_pc = "for"
    /\ todo = {}
    /\ LET cu_map_id == get_id(funcs, func_to_cu)
           recursion == /\ num_changes > prev_num_changes
                        /\ cu_map_id = cu_map_ids[Len(cu_map_ids)]
       IN  /\ modified_cus' = IF recursion THEN {} ELSE modified_cus
           /\ warned' = (warned \/ recursion)
           /\ cu_map_ids' = Append(cu_map_ids, cu_map_id)
    /\ prev_num_changes' = num_changes
    /\ opt_pc' = "while"
    /\ UNCHANGED <<map_vars, todo, num_rounds, num_changes, last_update, num_moved,
                   round_commits, seen_cu_ids, not_opt_vars>>

\* The end of a round without modified_cus.clear() on a fingerprint seen before
OptEndRound_noclear ==
    /\ opt_pc = "for"
    /\ todo = {}
    /\ cu_map_ids' = Append(cu_map_ids, get_id(funcs, func_to_cu))
    /\ prev_num_changes' = num_changes
    /\ opt_pc' = "while"
    /\ UNCHANGED <<map_vars, modified_cus, todo, num_rounds, num_changes,
                   last_update, num_moved, round_commits,
                   seen_cu_ids, warned, not_opt_vars>>

\* The end of a round: the fingerprint test, then prev_num_changes
OptEndRound ==
    /\ opt_pc = "for"
    /\ todo = {}
    /\ LET cu_map_id == get_id(funcs, func_to_cu)
           recursion == num_changes > prev_num_changes /\ cu_map_id \in Range(cu_map_ids)
       IN  /\ modified_cus' = IF recursion THEN {} ELSE modified_cus
           /\ warned' = (warned \/ recursion)
           /\ cu_map_ids' = Append(cu_map_ids, cu_map_id)
    /\ prev_num_changes' = num_changes
    /\ opt_pc' = "while"
    /\ UNCHANGED <<map_vars, todo, num_rounds, num_changes, last_update, num_moved,
                   round_commits, seen_cu_ids,
                   not_opt_vars>>

\* return num_changes
OptReturn ==
    /\ opt_pc = "while"
    /\ modified_cus = {}
    /\ opt_pc' = "done"
    /\ UNCHANGED <<map_vars, modified_cus, todo, cu_map_ids, num_rounds,
                   prev_num_changes, num_changes, last_update, num_moved,
                   round_commits, seen_cu_ids,
                   warned, not_opt_vars>>

\* optimize() on every contiguous map of up to MaxOptFuncs functions, with
\* an _optimize free to commit any candidate state
OptInit ==
    /\ \E n \in 1..MaxOptFuncs :
        /\ funcs = FuncEas(n)
        /\ func_to_cu \in ContiguousMaps(n, MaxOptCuId)
    /\ OptStart
    /\ StIdle
    /\ BfIdle
    /\ IoIdle
    /\ EstIdle
    /\ MoreIdle

OptNext ==
    \/ OptBeginRound
    \/ \E cu_id \in todo : OptSkip(cu_id)
    \/ \E cu_id \in todo : OptKeep(cu_id)
    \/ \E cu_id \in todo : OptCommit(cu_id)
    \/ OptEndRound
    \/ OptReturn

-----------------------------------------------------------------------------
(* util.py views, fitness_functions/modularity.py, optimizers/brute_force.py *)

\* A program graph is [segment |-> the segment selector of each node,
\* node_type |-> the type of each node, edges |-> the set of its edges].
\* An edge of an exported graph: the exporter adds one edge per tail, head
\* and class.
Edge(tail, head, edge_type, edge_class) ==
    [tail |-> tail, head |-> head, edge_type |-> edge_type, edge_class |-> edge_class]

\* The nodes of a graph
Nodes(graph) == DOMAIN graph.segment

\* graph.out_degree(node)
out_degree(graph, node) == Cardinality({e \in graph.edges : e.tail = node})

\* graph.in_degree(node)
in_degree(graph, node) == Cardinality({e \in graph.edges : e.head = node})

\* util.removed_sequence_edges_view: a copy with the edges whose class is not
\* SEQUENCE
removed_sequence_edges_view(graph) ==
    [graph EXCEPT !.edges = {e \in @ : e.edge_class # "SEQUENCE"}]

\* util.removed_sequence_edges_view_partial: a copy that keeps a sequence edge
\* whose tail has out-degree 1 or whose head has in-degree 1
removed_sequence_edges_view_partial(graph) ==
    [graph EXCEPT !.edges = {e \in @ : \/ e.edge_class # "SEQUENCE"
                                       \/ out_degree(graph, e.tail) = 1
                                       \/ in_degree(graph, e.head) = 1}]

\* util.segment_view: a copy with the nodes of segment sel and the edges
\* between them
segment_view(graph, sel) ==
    LET keep == {v \in Nodes(graph) : graph.segment[v] = sel}
    IN  [segment |-> [v \in keep |-> graph.segment[v]],
         node_type |-> [v \in keep |-> graph.node_type[v]],
         edges |-> {e \in graph.edges : e.tail \in keep /\ e.head \in keep}]

\* PDG.get_afcg: a copy with the CODE nodes and the CODE2CODE edges between
\* them
get_afcg(graph) ==
    LET keep == {v \in Nodes(graph) : graph.node_type[v] = "CODE"}
    IN  [segment |-> [v \in keep |-> graph.segment[v]],
         node_type |-> [v \in keep |-> graph.node_type[v]],
         edges |-> {e \in graph.edges : /\ e.tail \in keep /\ e.head \in keep
                                         /\ e.edge_type = "CODE2CODE"}]

\* PDG.get_dfg: a copy with every node and the edges that are not CODE2CODE
get_dfg(graph) == [graph EXCEPT !.edges = {e \in @ : e.edge_type # "CODE2CODE"}]

\* Optimizer._update_data: the optimizer's own PDG
update_data(graph) == removed_sequence_edges_view(graph)

\* Modularity._compute_modularity times m^2, m = pdg.size(), so that scores
\* compare as the quotients do:
\* link_sum / m - out_degree_sum * in_degree_sum * (1 / m ** 2)
compute_modularity(graph, community) ==
    LET m == Cardinality(graph.edges)
        link_sum == Cardinality({e \in graph.edges :
                                    e.tail \in community /\ e.head \in community})
        out_degree_sum == Cardinality({e \in graph.edges : e.tail \in community})
        in_degree_sum == Cardinality({e \in graph.edges : e.head \in community})
    IN  link_sum * m - out_degree_sum * in_degree_sum

\* Modularity.score of a program whose functions reference no data: the
\* community of a CU is the set of its functions
score(graph, state) ==
    LET cus == to_cu_list(state)
    IN  SumSeq([c \in 1..Len(cus) |-> compute_modularity(graph, Range(cus[c]))])

\* for num_ones in range(1, max_bits_set + 1): for new_state in siblings(num_ones)
AllSiblings(state) ==
    LET n == Len(state.funcs)
        one == siblings(state, 1)
        two == IF n >= 2 THEN siblings(state, 2) ELSE <<>>
        three == IF n >= 3 THEN siblings(state, 3) ELSE <<>>
    IN  one \o two \o three

\* The scan of the new states: if new_score > max_score: max_state = new_state
RECURSIVE ScanStates(_, _, _, _)
ScanStates(graph, states, max_state, max_score) ==
    IF states = <<>> THEN [max_state |-> max_state, max_score |-> max_score]
    ELSE LET new_state == Head(states)
             new_score == score(graph, new_state)
         IN  IF new_score > max_score
             THEN ScanStates(graph, Tail(states), new_state, new_score)
             ELSE ScanStates(graph, Tail(states), max_state, max_score)

\* cached_score that scores the merged pair in place of the pair's state
cached_score_merged(graph, scores, cu, state) ==
    IF cu.cu_id \in DOMAIN scores THEN scores[cu.cu_id]
    ELSE score(graph, State(2 ^ (Len(state.funcs) - 1), state.funcs))

\* The score _optimize starts from: cu_scores[cu.cu_id] when cached, else the
\* score of the pair's state
cached_score(graph, scores, cu, state) ==
    IF cu.cu_id \in DOMAIN scores THEN scores[cu.cu_id] ELSE score(graph, state)

\* BruteForce._optimize(cu, next_cu) on the map ftc with cache scores: the
\* map, the cache and the pair it returns
brute_force_optimize(graph, fs, ftc, scores, cu, next_cu) ==
    LET state == from_cu_list(<<cu.funcs, next_cu.funcs>>)
        start == cached_score(graph, scores, cu, state)
        scores1 == IF cu.cu_id \in DOMAIN scores THEN scores
                   ELSE [i \in DOMAIN scores \cup {cu.cu_id} |->
                            IF i = cu.cu_id THEN start ELSE scores[i]]
        best == ScanStates(graph, AllSiblings(state), state, start)
    IN  IF best.max_score > start /\ best.max_state.bits # state.bits
        THEN LET r == update_cu_map(fs, ftc, cu, next_cu, best.max_state)
             IN  [func_to_cu |-> r.func_to_cu, num_changes |-> r.num_changes,
                  new_cu_id |-> r.new_cu_id, state |-> best.max_state,
                  cu_scores |-> [scores1 EXCEPT ![cu.cu_id] = best.max_score]]
        ELSE [func_to_cu |-> ftc, num_changes |-> 0, new_cu_id |-> -1,
              state |-> state, cu_scores |-> scores1]

\* One pass of the for loop of optimize() with BruteForce._optimize
BruteOptimize(cu_id) ==
    /\ HasPair(cu_id)
    /\ LET cu == get_cu_by_cu_id(funcs, func_to_cu, cu_id)
           next_cu == get_next_cu(funcs, func_to_cu, cu)
           r == brute_force_optimize(update_data(pdg), funcs, func_to_cu, cu_scores,
                                     cu, next_cu)
       IN  /\ AfterOptimize(cu_id, cu, r.func_to_cu, r.num_changes, r.new_cu_id)
           /\ cu_scores' = r.cu_scores
           /\ IF r.num_changes > 0
              THEN Committed(cu, next_cu, r.state, r)
              ELSE UNCHANGED <<last_update, num_moved, round_commits, seen_cu_ids>>
    /\ UNCHANGED pdg

\* The sequence edges an exporter adds between functions that follow each
\* other in the same segment
SequenceEdges(fs, seg) ==
    {Edge(fs[i], fs[i + 1], "CODE2CODE", "SEQUENCE") :
        i \in {k \in 1..(Len(fs) - 1) : seg[fs[k]] = seg[fs[k + 1]]}}

\* The control edges: calls and code references between functions
ControlEdges(fs) ==
    {Edge(fs[i], fs[j], "CODE2CODE", "CONTROL_RELATION") :
        i \in 1..Len(fs), j \in 1..Len(fs)}

\* The exported PDGs of the functions fs, laid out in segments as seg says,
\* with min_edges to max_edges control edges
ExportedPdgs(fs, seg, min_edges, max_edges) ==
    {[segment |-> seg, node_type |-> [v \in DOMAIN seg |-> "CODE"],
      edges |-> es \cup SequenceEdges(fs, seg)] :
        es \in {s \in SUBSET ControlEdges(fs) : Cardinality(s) \in min_edges..max_edges}}

\* The PDGs of n functions of one segment with 1 to MaxPdgEdges control edges
\* (pdg.size() divides the score)
Pdgs(fs) == ExportedPdgs(fs, [v \in Range(fs) |-> 1], 1, MaxPdgEdges)

\* BruteForce(data, cu_map, Modularity).optimize() on an estimated map
BruteInit ==
    /\ \E n \in 2..MaxBruteFuncs :
        /\ funcs = FuncEas(n)
        /\ func_to_cu \in {ftc \in ContiguousMaps(n, n - 1) : renumber(ftc) = ftc}
        /\ pdg \in Pdgs(funcs)
    /\ cu_scores = <<>>
    /\ OptStart
    /\ StIdle
    /\ IoIdle
    /\ EstIdle
    /\ MoreIdle

BruteNext ==
    \/ OptBeginRound
    \/ \E cu_id \in todo : OptSkip(cu_id)
    \/ \E cu_id \in todo : BruteOptimize(cu_id)
    \/ OptEndRound
    \/ OptReturn

\* ga.best_solution() of the pygad.GA that Genetic._optimize runs over the
\* states of the pair: a state of the pair's bits with its fitness, whichever
\* the random search ended on
BestSolutions(graph, state) ==
    {[max_state |-> s, max_score |-> score(graph, s)] : s \in Range(AllSiblings(state))}

\* genetic_optimize that commits the best solution whatever its score
genetic_optimize_any(graph, fs, ftc, scores, cu, next_cu, best) ==
    LET state == from_cu_list(<<cu.funcs, next_cu.funcs>>)
        start == cached_score(graph, scores, cu, state)
        scores1 == IF cu.cu_id \in DOMAIN scores THEN scores
                   ELSE [i \in DOMAIN scores \cup {cu.cu_id} |->
                            IF i = cu.cu_id THEN start ELSE scores[i]]
    IN  IF state.bits # best.max_state.bits
        THEN LET r == update_cu_map(fs, ftc, cu, next_cu, best.max_state)
             IN  [func_to_cu |-> r.func_to_cu, num_changes |-> r.num_changes,
                  new_cu_id |-> r.new_cu_id, state |-> best.max_state,
                  cu_scores |-> [scores1 EXCEPT ![cu.cu_id] = best.max_score]]
        ELSE [func_to_cu |-> ftc, num_changes |-> 0, new_cu_id |-> -1,
              state |-> state, cu_scores |-> scores1]

\* Genetic._optimize(cu, next_cu) on the map ftc with cache scores, the GA
\* having returned best: the map, the cache and the pair it returns
genetic_optimize(graph, fs, ftc, scores, cu, next_cu, best) ==
    LET state == from_cu_list(<<cu.funcs, next_cu.funcs>>)
        start == cached_score(graph, scores, cu, state)
        scores1 == IF cu.cu_id \in DOMAIN scores THEN scores
                   ELSE [i \in DOMAIN scores \cup {cu.cu_id} |->
                            IF i = cu.cu_id THEN start ELSE scores[i]]
    IN  IF best.max_score > start /\ state.bits # best.max_state.bits
        THEN LET r == update_cu_map(fs, ftc, cu, next_cu, best.max_state)
             IN  [func_to_cu |-> r.func_to_cu, num_changes |-> r.num_changes,
                  new_cu_id |-> r.new_cu_id, state |-> best.max_state,
                  cu_scores |-> [scores1 EXCEPT ![cu.cu_id] = best.max_score]]
        ELSE [func_to_cu |-> ftc, num_changes |-> 0, new_cu_id |-> -1,
              state |-> state, cu_scores |-> scores1]

\* One pass of the for loop of optimize() with Genetic._optimize
GeneticOptimize(cu_id) ==
    /\ HasPair(cu_id)
    /\ LET cu == get_cu_by_cu_id(funcs, func_to_cu, cu_id)
           next_cu == get_next_cu(funcs, func_to_cu, cu)
           graph == update_data(pdg)
       IN  \E best \in BestSolutions(graph, from_cu_list(<<cu.funcs, next_cu.funcs>>)) :
              LET r == genetic_optimize(graph, funcs, func_to_cu, cu_scores,
                                        cu, next_cu, best)
              IN  /\ AfterOptimize(cu_id, cu, r.func_to_cu, r.num_changes, r.new_cu_id)
                  /\ cu_scores' = r.cu_scores
                  /\ IF r.num_changes > 0
                     THEN Committed(cu, next_cu, r.state, r)
                     ELSE UNCHANGED <<last_update, num_moved, round_commits, seen_cu_ids>>
    /\ UNCHANGED pdg

\* Genetic(data, cu_map, fitness_function).optimize() on an estimated map
GeneticInit ==
    /\ \E n \in 2..MaxGeneticFuncs :
        /\ funcs = FuncEas(n)
        /\ func_to_cu \in {ftc \in ContiguousMaps(n, n - 1) : renumber(ftc) = ftc}
        /\ pdg \in Pdgs(funcs)
    /\ cu_scores = <<>>
    /\ OptStart
    /\ StIdle
    /\ IoIdle
    /\ EstIdle
    /\ MoreIdle

GeneticNext ==
    \/ OptBeginRound
    \/ \E cu_id \in todo : OptSkip(cu_id)
    \/ \E cu_id \in todo : GeneticOptimize(cu_id)
    \/ OptEndRound
    \/ OptReturn

-----------------------------------------------------------------------------
(* cu_map.py: the map under construction and its persistence *)

\* The path suffixes a map is saved to and loaded from
Suffixes == {".json", ".pcl", ".txt"}

\* CUMap.save_json: the JSON object written to the file
save_json(fs, ftc, suffix) ==
    [suffix |-> suffix, format |-> "json",
     content |-> [funcs |-> fs, func_to_cu |-> ftc]]

\* CUMap.save_pickle: the pickled CUMap written to the file
save_pickle(fs, ftc, suffix) ==
    [suffix |-> suffix, format |-> "pickle",
     content |-> [class |-> "CUMap", _funcs |-> fs, _func_to_cu |-> ftc]]

\* What CUMap.load returns or raises
Loaded(status, fs, ftc) == [status |-> status, funcs |-> fs, func_to_cu |-> ftc]

\* CUMap.load with the key of js it reads func_to_cu from
load_with_key(f, key) ==
    IF f.suffix = ".pcl"
    THEN IF f.format # "pickle" THEN Loaded("UnpicklingError", <<>>, <<>>)
         ELSE IF f.content.class # "CUMap" THEN Loaded("TypeError", <<>>, <<>>)
         ELSE Loaded("ok", f.content._funcs, f.content._func_to_cu)
    ELSE IF f.suffix = ".json"
    THEN IF f.format # "json" THEN Loaded("UnicodeDecodeError", <<>>, <<>>)
         ELSE LET js == f.content
              IN  IF "funcs" \notin DOMAIN js \/ "func_to_cu" \notin DOMAIN js
                  THEN Loaded("TypeError", <<>>, <<>>)
                  ELSE IF key \notin DOMAIN js
                  THEN Loaded("KeyError", <<>>, <<>>)
                  ELSE Loaded("ok", js.funcs, js[key])
    ELSE Loaded("ValueError", <<>>, <<>>)

\* CUMap.load: self._func_to_cu = js["funcs_to_cu"]
load(f) == load_with_key(f, "funcs_to_cu")

\* CUMap(funcs): every function starts with the label -1
\* A call of method on the map whose func_to_cu was before
MapCall(method, before) == [method |-> method, before |-> before]

MapInit ==
    /\ \E n \in 0..MaxMapFuncs :
        /\ funcs = FuncEas(n)
        /\ func_to_cu = [i \in 1..n |-> -1]
    /\ IoIdle
    /\ StIdle
    /\ OptIdle
    /\ BfIdle
    /\ EstIdle
    /\ MoreIdle

\* cu_map.set_cu_by_func_idx(i, cu_id)
SetCuByFuncIdx ==
    /\ \E i \in 0..(Len(funcs) - 1), cu_id \in 0..MaxMapCuId :
        func_to_cu' = set_cu_by_func_idx(func_to_cu, i, cu_id)
    /\ UNCHANGED <<funcs, io_vars, not_map_vars>>

MapSetCu == SetCuByFuncIdx /\ UNCHANGED map_call

\* cu_map.renumber()
Renumber ==
    /\ func_to_cu' = renumber(func_to_cu)
    /\ UNCHANGED <<funcs, io_vars, not_map_vars>>

MapRenumber == Renumber /\ UNCHANGED map_call

\* cu_map.save_json(path)
MapSaveJson ==
    /\ \E suffix \in Suffixes : file' = save_json(funcs, func_to_cu, suffix)
    /\ saved' = [funcs |-> funcs, func_to_cu |-> func_to_cu]
    /\ loaded' = NoLoad
    /\ UNCHANGED map_call
    /\ UNCHANGED <<map_vars, not_map_vars>>

\* cu_map.save_pickle(path)
MapSavePickle ==
    /\ \E suffix \in Suffixes : file' = save_pickle(funcs, func_to_cu, suffix)
    /\ saved' = [funcs |-> funcs, func_to_cu |-> func_to_cu]
    /\ loaded' = NoLoad
    /\ UNCHANGED map_call
    /\ UNCHANGED <<map_vars, not_map_vars>>

\* CUMap.load(path) of the file written last
MapLoad ==
    /\ file # NoFile
    /\ loaded = NoLoad
    /\ loaded' = load(file)
    /\ UNCHANGED map_call
    /\ UNCHANGED <<file, saved, map_vars, not_map_vars>>

MapNext == MapSetCu \/ MapRenumber \/ MapSaveJson \/ MapSavePickle \/ MapLoad

SpecMap == MapInit /\ [][MapNext]_vars

\* The same calls on the labels, each recorded with the map it was made on
LblSetCu == SetCuByFuncIdx /\ map_call' = MapCall("set_cu_by_func_idx", func_to_cu)

LblRenumber == Renumber /\ map_call' = MapCall("renumber", func_to_cu)

LblNext == LblSetCu \/ LblRenumber

SpecLabels == MapInit /\ [][LblNext]_vars

-----------------------------------------------------------------------------
(* estimator.py, estimators/articulation_points.py,                        *)
(* estimators/agglomerative.py                                              *)

RECURSIVE Sorted(_)
\* sorted(S) of a set of integers
Sorted(S) ==
    IF S = {} THEN <<>>
    ELSE LET m == CHOOSE x \in S : \A y \in S : x <= y
         IN  <<m>> \o Sorted(S \ {m})

\* graph.successors(node)
successors(graph, node) == {e.head : e \in {x \in graph.edges : x.tail = node}}

\* graph.predecessors(node)
predecessors(graph, node) == {e.tail : e \in {x \in graph.edges : x.head = node}}

EstimatorKinds == {"APSNSE", "APSPSE", "AGGLNSE", "AGGLPSE"}

\* The constructors: self._afcg is the segment's view of data.afcg, then
\* the view without (NSE) or with part of (PSE) the sequence edges
EstimatorAfcg(kind, data_pdg, segment) ==
    LET view == segment_view(get_afcg(data_pdg), segment)
    IN  IF kind \in {"APSNSE", "AGGLNSE"}
        THEN removed_sequence_edges_view(view)
        ELSE removed_sequence_edges_view_partial(view)

\* afcg.to_undirected(): u and v are neighbours
Adjacent(graph, u, v) ==
    /\ u # v
    /\ \E e \in graph.edges : {e.tail, e.head} = {u, v}

RECURSIVE Reach(_, _, _)
\* The nodes of allowed that paths inside allowed reach from seen
Reach(graph, allowed, seen) ==
    LET more == seen \cup {v \in allowed : \E u \in seen : Adjacent(graph, u, v)}
    IN  IF more = seen THEN seen ELSE Reach(graph, allowed, more)

\* networkx.articulation_points of the undirected graph: the nodes whose
\* removal separates two of their neighbours
articulation_points(graph) ==
    {v \in Nodes(graph) :
        LET rest == Nodes(graph) \ {v}
            nbrs == {u \in rest : Adjacent(graph, u, v)}
        IN  \E a \in nbrs : ~(nbrs \subseteq Reach(graph, rest, {a}))}

\* func_eas.index(x, start), or -1 where Python raises ValueError
IndexFrom(fs, x, start) ==
    LET at == {i \in start..(Len(fs) - 1) : fs[i + 1] = x}
    IN  IF at = {} THEN -1 ELSE CHOOSE i \in at : \A k \in at : i <= k

\* for k in range(lo, hi): cu_map.set_cu_by_func_idx(k, cu_id)
SetRange(ftc, lo, hi, cu_id) ==
    [p \in 1..Len(ftc) |-> IF lo < p /\ p <= hi THEN cu_id ELSE ftc[p]]

\* The tail loop of the articulation-point _estimate:
\* for k in range(prev_j, len(func_eas)): cu_map.set_cu_by_func_idx(k, i + 1)
ap_tail(ftc, prev_j, i) == SetRange(ftc, prev_j, Len(ftc), i + 1)

\* cu_graph.has_edge(a, b): the edges of the undirected cu_graph are keyed
\* by the set of their two ends
has_edge(g, a, b) == {a, b} \in DOMAIN g.count

\* count += 1 on the edge, or add_edge(a, b, count=1)
IncCount(g, a, b) ==
    IF has_edge(g, a, b)
    THEN [g EXCEPT !.count[{a, b}] = @ + 1]
    ELSE [nodes |-> g.nodes \cup {a, b},
          count |-> [k \in DOMAIN g.count \cup {{a, b}} |->
                        IF k = {a, b} THEN 1 ELSE g.count[k]]]

\* count - 1 on an edge that stays in the graph when its count reaches 0
DecCount_keepzero(g, a, b) ==
    IF has_edge(g, a, b) THEN [g EXCEPT !.count[{a, b}] = @ - 1] ELSE g

\* if has_edge: count - 1, and remove_edge when it reaches 0
DecCount(g, a, b) ==
    IF has_edge(g, a, b)
    THEN IF g.count[{a, b}] - 1 = 0
         THEN [g EXCEPT !.count = [k \in DOMAIN g.count \ {{a, b}} |-> g.count[k]]]
         ELSE [g EXCEPT !.count[{a, b}] = @ - 1]
    ELSE g

RECURSIVE AddArcs(_, _)
\* The loop body of _build_cu_graph and _move_to_cu over (cu_id, cu_id) pairs
AddArcs(g, arcs) ==
    IF arcs = <<>> THEN g
    ELSE LET a == Head(arcs)
         IN  AddArcs(IF a[1] # a[2] THEN IncCount(g, a[1], a[2]) ELSE g, Tail(arcs))

RECURSIVE DelArcs(_, _)
\* The loop body of _remove_from_cu over (cu_id, cu_id) pairs
DelArcs(g, arcs) ==
    IF arcs = <<>> THEN g
    ELSE DelArcs(DecCount(g, Head(arcs)[1], Head(arcs)[2]), Tail(arcs))

\* The CU id of the function at ea: cu_map.get_cu_by_func_ea(ea).cu_id
CuIdOf(fs, ftc, ea) == get_cu_by_func_ea(fs, ftc, ea).cu_id

\* _Base._build_cu_graph
build_cu_graph(graph, fs, ftc) ==
    LET cus == get_cus(fs, ftc)
        arcs_of(cu_id, func_ea) ==
            LET succs == Sorted(successors(graph, func_ea))
            IN  [k \in 1..Len(succs) |-> <<cu_id, CuIdOf(fs, ftc, succs[k])>>]
        arcs == Chain([c \in 1..Len(cus) |->
                    Chain([k \in 1..Len(cus[c].funcs) |->
                              arcs_of(cus[c].cu_id, cus[c].funcs[k])])])
    IN  AddArcs([nodes |-> {cus[c].cu_id : c \in 1..Len(cus)}, count |-> <<>>], arcs)

\* The (cu_id, cu_id) pairs that _remove_from_cu and _move_to_cu go through:
\* the predecessors of func_ea, then its successors
MoveArcs(graph, fs, ftc, func_ea, cu_id) ==
    LET preds == Sorted(predecessors(graph, func_ea))
        succs == Sorted(successors(graph, func_ea))
    IN  [k \in 1..Len(preds) |-> <<CuIdOf(fs, ftc, preds[k]), cu_id>>] \o
        [k \in 1..Len(succs) |-> <<cu_id, CuIdOf(fs, ftc, succs[k])>>]

\* _Base._remove_from_cu
remove_from_cu(graph, fs, ftc, g, func_ea, cu_id) ==
    DelArcs(g, MoveArcs(graph, fs, ftc, func_ea, cu_id))

\* _Base._move_to_cu
move_to_cu(graph, fs, ftc, g, func_ea, cu_id) ==
    AddArcs(g, MoveArcs(graph, fs, ftc, func_ea, cu_id))

RECURSIVE CuReach(_, _)
\* The nodes of the cu_graph connected to those of seen
CuReach(g, seen) ==
    LET more == seen \cup {v \in g.nodes : \E u \in seen : u # v /\ has_edge(g, u, v)}
    IN  IF more = seen THEN seen ELSE CuReach(g, more)

RECURSIVE Ancestors(_, _, _, _)
\* The ancestors of v in the tree that gives each node but source its parent
Ancestors(parent, v, source, fuel) ==
    IF v = source \/ fuel = 0 THEN {}
    ELSE {parent[v]} \cup Ancestors(parent, parent[v], source, fuel - 1)

\* The trees a depth-first search of the cu_graph from source can build,
\* whatever the order of the adjacency lists: the spanning trees of the
\* component of source in which every edge joins a node to an ancestor
DfsTrees(g, source) ==
    LET comp == CuReach(g, {source})
        n == Cardinality(comp)
    IN  {parent \in [comp \ {source} -> comp] :
            /\ \A v \in comp \ {source} :
                  /\ v # parent[v] /\ has_edge(g, v, parent[v])
                  /\ source \in Ancestors(parent, v, source, n)
            /\ \A k \in DOMAIN g.count :
                  k \subseteq comp =>
                      \E a, b \in k : a # b /\ a \in Ancestors(parent, b, source, n)}

RECURSIVE SumCounts(_, _)
\* The sum of the counts of the edges keys
SumCounts(count, keys) ==
    IF keys = {} THEN 0
    ELSE LET k == CHOOSE x \in keys : TRUE
         IN  count[k] + SumCounts(count, keys \ {k})

\* _count_non_tree_edges whose test of the label never matches
count_non_tree_edges_none(g, source) == {0}

\* _Base._count_non_tree_edges: networkx.dfs_labeled_edges labels "nontree"
\* every tree edge once, seen from the child, and every other edge of the
\* component twice.  The values for every order of the adjacency lists.
count_non_tree_edges(g, source) ==
    LET comp == CuReach(g, {source})
        edges == {k \in DOMAIN g.count : k \subseteq comp}
    IN  {2 * SumCounts(g.count, edges)
            - SumCounts(g.count, {{v, parent[v]} : v \in comp \ {source}}) :
         parent \in DfsTrees(g, source)}

\* cache with cache[cu_id] = num_edges
CachePut(c, cu_id, num_edges) ==
    [k \in DOMAIN c \cup {cu_id} |-> IF k = cu_id THEN num_edges ELSE c[k]]

\* What an estimator's actions leave alone besides the locals they set
EstFrame == UNCHANGED <<pdg, est_kind, afcg, not_est_vars>>

\* APSNSE/APSPSE _estimate up to its for loop
ApBegin ==
    /\ est_pc = "start"
    /\ est_kind \in {"APSNSE", "APSPSE"}
    /\ funcs' = Sorted(Nodes(afcg))
    /\ func_to_cu' = [p \in 1..Cardinality(Nodes(afcg)) |-> -1]
    /\ aps' = Sorted(articulation_points(afcg))
    /\ ap_pos' = 0
    /\ ap_i' = 0
    /\ ap_prev_j' = 0
    /\ est_pc' = "ap_for"
    /\ EstFrame
    /\ UNCHANGED <<est_raised, cu_graph, cache, cache_stale, func_idx, next_func_idx,
                   tmp_num_changes, min_num_edges, aggl_num_rounds>>

\* One pass of the for loop over the sorted articulation points
ApStep ==
    /\ est_pc = "ap_for"
    /\ ap_pos < Len(aps)
    /\ LET i == ap_pos
           j == IndexFrom(funcs, aps[ap_pos + 1], ap_prev_j)
       IN  IF j < 0
           THEN /\ est_pc' = "raised"
                /\ est_raised' = "ValueError"
                /\ UNCHANGED <<func_to_cu, ap_pos, ap_i, ap_prev_j>>
           ELSE /\ func_to_cu' = SetRange(func_to_cu, ap_prev_j, j, i + 1)
                /\ ap_i' = i
                /\ ap_prev_j' = j
                /\ ap_pos' = ap_pos + 1
                /\ UNCHANGED <<est_pc, est_raised>>
    /\ EstFrame
    /\ UNCHANGED <<funcs, aps, cu_graph, cache, cache_stale, func_idx, next_func_idx,
                   tmp_num_changes, min_num_edges, aggl_num_rounds>>

\* The tail loop, renumber() and the return
ApFinish ==
    /\ est_pc = "ap_for"
    /\ ap_pos = Len(aps)
    /\ func_to_cu' = renumber(ap_tail(func_to_cu, ap_prev_j, ap_i))
    /\ est_pc' = "done"
    /\ EstFrame
    /\ UNCHANGED <<funcs, est_raised, aps, ap_pos, ap_i, ap_prev_j, cu_graph, cache, cache_stale,
                   func_idx, next_func_idx, tmp_num_changes, min_num_edges,
                   aggl_num_rounds>>

\* AGGLNSE/AGGLPSE _estimate up to its while True
AgglBegin ==
    /\ est_pc = "start"
    /\ est_kind \in {"AGGLNSE", "AGGLPSE"}
    /\ LET fs == Sorted(Nodes(afcg))
           ftc == [p \in 1..Len(fs) |-> p]
       IN  /\ funcs' = fs
           /\ func_to_cu' = ftc
           /\ cu_graph' = build_cu_graph(afcg, fs, ftc)
    /\ cache' = <<>>
    /\ cache_stale' = {}
    /\ aggl_num_rounds' = 0
    /\ est_pc' = "while"
    /\ EstFrame
    /\ UNCHANGED <<est_raised, aps, ap_pos, ap_i, ap_prev_j, func_idx, next_func_idx,
                   tmp_num_changes, min_num_edges>>

\* The head of a round: func_idx = 0, the first CU, its cache entry.  With no
\* CU the message of the ValueError reads func_eas[func_idx], which raises
\* IndexError on an empty list.
AgglRound ==
    /\ est_pc = "while"
    /\ LET cu == get_cu_by_func_idx(funcs, func_to_cu, 0)
       IN  IF cu = NoCu
           THEN /\ est_pc' = "raised"
                /\ est_raised' = IF func_idx < Len(funcs)
                                  THEN "ValueError" ELSE "IndexError"
                /\ UNCHANGED <<func_idx, next_func_idx, cache, cache_stale, tmp_num_changes>>
           ELSE /\ func_idx' = 0
                /\ next_func_idx' = Len(cu.funcs)
                /\ IF cu.cu_id \in DOMAIN cache
                   THEN cache' = cache
                   ELSE \E num_edges \in count_non_tree_edges(cu_graph, cu.cu_id) :
                            cache' = CachePut(cache, cu.cu_id, num_edges)
                /\ UNCHANGED cache_stale
                /\ tmp_num_changes' = 0
                /\ est_pc' = "inner"
                /\ UNCHANGED est_raised
    /\ EstFrame
    /\ UNCHANGED <<map_vars, aps, ap_pos, ap_i, ap_prev_j, cu_graph, min_num_edges,
                   aggl_num_rounds>>

\* One pass of the inner while: the next function joins the current CU and
\* stays if the non-tree edges did not grow, else goes back and becomes the
\* pivot
AgglStep ==
    /\ est_pc = "inner"
    /\ next_func_idx < Len(funcs)
    /\ LET cu == get_cu_by_func_idx(funcs, func_to_cu, func_idx)
           next_func_ea == funcs[next_func_idx + 1]
           next_cu == get_cu_by_func_idx(funcs, func_to_cu, next_func_idx)
           g1 == remove_from_cu(afcg, funcs, func_to_cu, cu_graph, next_func_ea,
                                next_cu.cu_id)
           ftc1 == set_cu_by_func_idx(func_to_cu, next_func_idx, cu.cu_id)
           g2 == move_to_cu(afcg, funcs, ftc1, g1, next_func_ea, cu.cu_id)
           g3 == remove_from_cu(afcg, funcs, ftc1, g2, next_func_ea, cu.cu_id)
           ftc2 == set_cu_by_func_idx(ftc1, next_func_idx, next_cu.cu_id)
           g4 == move_to_cu(afcg, funcs, ftc2, g3, next_func_ea, next_cu.cu_id)
       IN  \E num_edges \in count_non_tree_edges(g2, cu.cu_id) :
             /\ min_num_edges' = cache[cu.cu_id]
             /\ IF num_edges <= cache[cu.cu_id]
                THEN /\ cache' = CachePut(cache, cu.cu_id, num_edges)
                     /\ cache_stale' = (cache_stale \ {cu.cu_id})
                                           \cup ({next_cu.cu_id} \cap DOMAIN cache)
                     /\ tmp_num_changes' = tmp_num_changes + 1
                     /\ func_to_cu' = ftc1
                     /\ cu_graph' = g2
                     /\ func_idx' = func_idx
                     /\ next_func_idx' =
                           func_idx + Len(get_cu_by_func_idx(funcs, ftc1, func_idx).funcs)
                ELSE /\ func_to_cu' = ftc2
                     /\ cu_graph' = g4
                     /\ func_idx' = next_func_idx
                     /\ IF next_cu.cu_id \in DOMAIN cache
                        THEN cache' = cache
                        ELSE \E n \in count_non_tree_edges(g4, next_cu.cu_id) :
                                 cache' = CachePut(cache, next_cu.cu_id, n)
                     /\ UNCHANGED cache_stale
                     /\ tmp_num_changes' = tmp_num_changes
                     /\ next_func_idx' =
                           next_func_idx +
                           Len(get_cu_by_func_idx(funcs, ftc2, next_func_idx).funcs)
    /\ EstFrame
    /\ UNCHANGED <<funcs, est_pc, est_raised, aps, ap_pos, ap_i, ap_prev_j,
                   aggl_num_rounds>>

\* The end of a round: the counters, the debug message that reads
\* min_num_edges, then break, renumber() and return, or the next round
AgglEndRound ==
    /\ est_pc = "inner"
    /\ next_func_idx >= Len(funcs)
    /\ aggl_num_rounds' = aggl_num_rounds + 1
    /\ IF min_num_edges < 0
       THEN /\ est_pc' = "raised"
            /\ est_raised' = "UnboundLocalError"
            /\ UNCHANGED func_to_cu
       ELSE IF tmp_num_changes = 0
       THEN /\ est_pc' = "done"
            /\ func_to_cu' = renumber(func_to_cu)
            /\ UNCHANGED est_raised
       ELSE /\ est_pc' = "while"
            /\ UNCHANGED <<func_to_cu, est_raised>>
    /\ EstFrame
    /\ UNCHANGED <<funcs, aps, ap_pos, ap_i, ap_prev_j, cu_graph, cache, cache_stale, func_idx,
                   next_func_idx, tmp_num_changes, min_num_edges>>

\* The segments the functions lie in: all in segment 1, or the last one in
\* segment 2
Layouts(fs) ==
    {[v \in Range(fs) |-> 1]} \cup
    {[v \in Range(fs) |-> IF v = fs[Len(fs)] THEN 2 ELSE 1] : x \in 1..(IF fs = <<>> THEN 0 ELSE 1)}

\* The exported PDG of the call chain f0 -> f1 -> ... of n functions in
\* segment 1
PathPdg(n) ==
    LET fs == FuncEas(n)
        seg == [v \in Range(fs) |-> 1]
    IN  [segment |-> seg, node_type |-> [v \in DOMAIN seg |-> "CODE"],
         edges |-> {Edge(fs[i], fs[i + 1], "CODE2CODE", "CONTROL_RELATION") :
                       i \in 1..(n - 1)} \cup SequenceEdges(fs, seg)]

\* The three calls among the functions a, b and c, each made one way or the
\* other as rev says
Triangle(a, b, c, rev) ==
    {IF rev[i] THEN Edge(<<b, c, c>>[i], <<a, b, a>>[i], "CODE2CODE", "CONTROL_RELATION")
               ELSE Edge(<<a, b, a>>[i], <<b, c, c>>[i], "CODE2CODE", "CONTROL_RELATION") :
        i \in 1..3}

\* The exported PDGs of two triangles {f0, f1, f2} and {f3, f4, f5} laid out
\* one after the other in segment 1, with no call between the two
TrianglePdgs ==
    LET fs == FuncEas(6)
        seg == [v \in Range(fs) |-> 1]
    IN  {[segment |-> seg, node_type |-> [v \in DOMAIN seg |-> "CODE"],
          edges |-> Triangle(fs[1], fs[2], fs[3], r1) \cup
                    Triangle(fs[4], fs[5], fs[6], r2) \cup SequenceEdges(fs, seg)] :
            r1 \in [1..3 -> BOOLEAN], r2 \in [1..3 -> BOOLEAN]}

\* The exported PDGs of six functions laid out in segment 1 whose calls are
\* some of f0 -> f2, f1 -> f5, f2 -> f4 and f3 -> f4
ForestPdgs ==
    LET fs == FuncEas(6)
        seg == [v \in Range(fs) |-> 1]
        calls == {Edge(fs[1], fs[3], "CODE2CODE", "CONTROL_RELATION"),
                  Edge(fs[2], fs[6], "CODE2CODE", "CONTROL_RELATION"),
                  Edge(fs[3], fs[5], "CODE2CODE", "CONTROL_RELATION"),
                  Edge(fs[4], fs[5], "CODE2CODE", "CONTROL_RELATION")}
    IN  {[segment |-> seg, node_type |-> [v \in DOMAIN seg |-> "CODE"],
          edges |-> some \cup SequenceEdges(fs, seg)] : some \in SUBSET calls}

\* An estimator built for segment 1 on the exported data of up to
\* MaxEstFuncs functions, of a call chain of up to MaxPathFuncs, of two
\* triangles, or of a forest of calls
EstInit ==
    /\ est_kind \in EstimatorKinds
    /\ \/ \E n \in 0..MaxEstFuncs :
            \E seg \in Layouts(FuncEas(n)) :
                pdg \in ExportedPdgs(FuncEas(n), seg, 0, MaxEstEdges)
       \/ \E n \in 1..MaxPathFuncs : pdg = PathPdg(n)
       \/ pdg \in TrianglePdgs
       \/ pdg \in ForestPdgs
    /\ afcg = EstimatorAfcg(est_kind, pdg, 1)
    /\ est_pc = "start"
    /\ est_raised = ""
    /\ aps = <<>>
    /\ ap_pos = 0
    /\ ap_i = 0
    /\ ap_prev_j = 0
    /\ cu_graph = NoCuGraph
    /\ cache = <<>>
    /\ cache_stale = {}
    /\ func_idx = 0
    /\ next_func_idx = 0
    /\ tmp_num_changes = 0
    /\ min_num_edges = -1
    /\ aggl_num_rounds = 0
    /\ cu_scores = <<>>
    /\ MapIdle
    /\ StIdle
    /\ OptIdle
    /\ IoIdle
    /\ MoreIdle

EstNext ==
    \/ ApBegin
    \/ ApStep
    \/ ApFinish
    \/ AgglBegin
    \/ AgglRound
    \/ AgglStep
    \/ AgglEndRound

SpecEst == EstInit /\ [][EstNext]_vars

SpecBrute == BruteInit /\ [][BruteNext]_vars

SpecGenetic == GeneticInit /\ [][GeneticNext]_vars

SpecOpt == OptInit /\ [][OptNext]_vars

SpecState == StInit /\ [][StNext]_vars

-----------------------------------------------------------------------------
(* __init__.py: analyze(), and the analyze() of plugins/ida_pro/recover.py   *)
(* that calls it                                                             *)

\* Python's `x or default` on a string argument (None and "" are false)
OrDefault(x, default) == IF x = "" THEN default ELSE x

\* ESTIMATORS, OPTIMIZERS and FITNESS_FUNCTIONS of the plugin, the choices of
\* the console parser, and "" for an argument not given
EstimatorNames == {"", "agglnse", "agglpse", "apsnse", "apspse", "file"}
OptimizerNames == {"", "none", "brute_fast", "brute", "genetic", "mixed"}
FitnessFunctionNames == {"", "modularity", "cc", "none"}

\* The arguments analyze() of the plugin hands to recover.analyze()
plugin_analyze_args(call) ==
    [call EXCEPT !.estimator = OrDefault(@, "apsnse"),
                 !.optimizer = OrDefault(@, "brute_fast"),
                 !.fitness_function = OrDefault(@, "modularity")]

\* The arguments recover.analyze() runs with when called directly: the
\* defaults of its signature stand for the arguments not given
analyze_args(call) ==
    [call EXCEPT !.estimator = OrDefault(@, "apspse"),
                 !.optimizer = OrDefault(@, "brute"),
                 !.fitness_function = OrDefault(@, "modularity")]

\* analyze(): the estimator class run for a name ("" for a name it rejects)
estimator_class(args) ==
    IF args.load_estimation THEN "CUMap.load"
    ELSE CASE args.estimator = "apsnse" -> "APSNSE"
           [] args.estimator = "apspse" -> "APSPSE"
           [] args.estimator = "agglnse" -> "AGGLNSE"
           [] args.estimator = "agglpse" -> "AGGLPSE"
           [] OTHER -> ""

\* analyze(): the fitness function class for a name ("" for a rejected name)
fitness_function_class(name) ==
    CASE name = "modularity" -> "Modularity"
      [] name = "cc" -> "ClusteringCoefficient"
      [] OTHER -> ""

\* analyze(): the optimizer class run for a name ("" for a rejected name)
optimizer_class(name) ==
    CASE name = "brute" -> "BruteForce"
      [] name = "genetic" -> "Genetic"
      [] OTHER -> ""

DrvFrame == UNCHANGED <<drv_call, not_drv_vars>>

DrvRaise(exc) ==
    /\ drv_pc' = "raised"
    /\ drv_raised' = exc

\* analyze() of the plugin: check_dir(path), then recover.analyze() with the
\* defaults filled in
DrvPlugin ==
    /\ drv_pc = "plugin"
    /\ IF drv_call.path = "missing"
       THEN DrvRaise("FileNotFoundError") /\ UNCHANGED drv_args
       ELSE IF drv_call.path = "file"
       THEN DrvRaise("NotADirectoryError") /\ UNCHANGED drv_args
       ELSE /\ drv_pc' = "segment"
            /\ drv_args' = plugin_analyze_args(drv_call)
            /\ UNCHANGED drv_raised
    /\ UNCHANGED <<drv_estimator, drv_fitness, drv_optimizer, drv_files>>
    /\ DrvFrame

\* recover.analyze(): load_data and the choice of the segment
DrvSegment ==
    /\ drv_pc = "segment"
    /\ IF drv_args.num_segs = 0
       THEN DrvRaise("ValueError: Could not locate segment")
       ELSE drv_pc' = "estimate" /\ UNCHANGED drv_raised
    /\ UNCHANGED <<drv_args, drv_estimator, drv_fitness, drv_optimizer, drv_files>>
    /\ DrvFrame

\* recover.analyze(): the initial compile-unit map
DrvEstimate ==
    /\ drv_pc = "estimate"
    /\ IF estimator_class(drv_args) = ""
       THEN DrvRaise("ValueError: Invalid estimator") /\ UNCHANGED drv_estimator
       ELSE /\ drv_pc' = "optimize"
            /\ drv_estimator' = estimator_class(drv_args)
            /\ UNCHANGED drv_raised
    /\ UNCHANGED <<drv_args, drv_fitness, drv_optimizer, drv_files>>
    /\ DrvFrame

\* recover.analyze(): the fitness function and the optimizer
DrvOptimize ==
    /\ drv_pc = "optimize"
    /\ IF drv_args.optimizer = "none"
       THEN drv_pc' = "save" /\ UNCHANGED <<drv_raised, drv_fitness, drv_optimizer>>
       ELSE IF fitness_function_class(drv_args.fitness_function) = ""
       THEN /\ DrvRaise("ValueError: Invalid fitness function")
            /\ UNCHANGED <<drv_fitness, drv_optimizer>>
       ELSE /\ drv_fitness' = fitness_function_class(drv_args.fitness_function)
            /\ IF optimizer_class(drv_args.optimizer) = ""
               THEN /\ DrvRaise("ValueError: Invalid optimizer")
                    /\ UNCHANGED drv_optimizer
               ELSE /\ drv_pc' = "save"
                    /\ drv_optimizer' = optimizer_class(drv_args.optimizer)
                    /\ UNCHANGED drv_raised
    /\ UNCHANGED <<drv_args, drv_estimator, drv_files>>
    /\ DrvFrame

\* recover.analyze(): renumber() and the two files
DrvSave ==
    /\ drv_pc = "save"
    /\ drv_pc' = "done"
    /\ drv_files' = {"pickle", "json"}
    /\ UNCHANGED <<drv_args, drv_raised, drv_estimator, drv_fitness, drv_optimizer>>
    /\ DrvFrame

\* One call of analyze(), through the plugin or directly
DrvInit ==
    /\ \E entry \in {"plugin", "api"}, path \in {"", "dir", "missing", "file"},
          estimator \in EstimatorNames, optimizer \in OptimizerNames,
          fitness_function \in FitnessFunctionNames,
          load_estimation \in BOOLEAN, num_segs \in 0..2 :
            /\ entry = "api" => path = "dir"
            /\ drv_call = [entry |-> entry, path |-> path, estimator |-> estimator,
                           load_estimation |-> load_estimation,
                           optimizer |-> optimizer,
                           fitness_function |-> fitness_function,
                           num_segs |-> num_segs]
            /\ drv_pc = IF entry = "plugin" THEN "plugin" ELSE "segment"
            /\ drv_args = IF entry = "plugin" THEN NoArgs ELSE analyze_args(drv_call)
    /\ drv_raised = ""
    /\ drv_estimator = ""
    /\ drv_fitness = ""
    /\ drv_optimizer = ""
    /\ drv_files = {}
    /\ StIdle
    /\ MapIdle
    /\ OptIdle
    /\ BfIdle
    /\ IoIdle
    /\ EstIdle
    /\ map_call = NoCall
    /\ GrIdle
    /\ FitIdle
    /\ GaIdle

DrvNext == DrvPlugin \/ DrvSegment \/ DrvEstimate \/ DrvOptimize \/ DrvSave

SpecDrv == DrvInit /\ [][DrvNext]_vars

-----------------------------------------------------------------------------
(* graphs/graphs.py: a program graph built call by call, and the views of    *)
(* util.py and of PDG taken of it                                            *)

\* The addresses, node types, segments, edge types, edge classes and sizes
\* the calls are made with
GraphNodes == {16, 32}
NodeTypes == {"CODE", "DATA"}
Selectors == {1, 2}
EdgeTypes == {"CODE2CODE", "CODE2DATA"}
EdgeClasses == {"CONTROL_RELATION", "SEQUENCE"}
EdgeSizes == {0, 4}

\* The attributes of a node that networkx adds for an edge: it has none
NoSegment == -1
NoNodeType == ""

\* f with f[k] = v, k added to the domain if need be
Put(f, k, v) == [x \in DOMAIN f \cup {k} |-> IF x = k THEN v ELSE f[x]]

\* _BaseGraph.add_program_node: add_node(node, node_type=, segment=, name=)
add_program_node(graph, node, node_type, segment) ==
    [graph EXCEPT !.segment = Put(@, node, segment),
                  !.node_type = Put(@, node, node_type)]

\* The edges of graph from tail to head: get_edge_data(tail, head, default={})
get_edge_data(graph, tail, head) ==
    {e \in graph.edges : e.tail = tail /\ e.head = head}

\* MultiDiGraph.add_edge: the nodes are added when missing, the key is the
\* number of edges from tail to head
add_edge(graph, tail, head, edge_type, edge_class, size) ==
    LET bare(f, none) == [x \in DOMAIN f \cup {tail, head} |->
                             IF x \in DOMAIN f THEN f[x] ELSE none]
    IN  [segment |-> bare(graph.segment, NoSegment),
         node_type |-> bare(graph.node_type, NoNodeType),
         edges |-> graph.edges \cup
                   {[tail |-> tail, head |-> head,
                     key |-> Cardinality(get_edge_data(graph, tail, head)),
                     edge_type |-> edge_type, edge_class |-> edge_class,
                     size |-> size]}]

\* add_program_edge without the test of the classes
add_program_edge_always(graph, tail, head, edge_type, edge_class, size) ==
    add_edge(graph, tail, head, edge_type, edge_class, size)

\* _BaseGraph.add_program_edge
add_program_edge(graph, tail, head, edge_type, edge_class, size) ==
    IF \A data \in get_edge_data(graph, tail, head) : data.edge_class # edge_class
    THEN add_edge(graph, tail, head, edge_type, edge_class, size)
    ELSE graph

\* The functions that return a view
ViewKinds == {"segment_view", "removed_sequence_edges_view",
              "removed_sequence_edges_view_partial", "get_afcg", "get_dfg"}

\* What the filters of the view kind let through of graph
Filtered(kind, sel, graph) ==
    CASE kind = "segment_view" -> segment_view(graph, sel)
      [] kind = "removed_sequence_edges_view" -> removed_sequence_edges_view(graph)
      [] kind = "removed_sequence_edges_view_partial" ->
            removed_sequence_edges_view_partial(graph)
      [] kind = "get_afcg" -> get_afcg(graph)
      [] OTHER -> get_dfg(graph)

\* A view function called on graph: type(graph)(subgraph_view(graph, ...))
\* builds a new graph from what the filters let through at the time of the
\* call; the node filter of get_afcg reads self.nodes[node]["node_type"]
MakeView(kind, sel, graph) ==
    IF kind = "get_afcg" /\ \E v \in Nodes(graph) : graph.node_type[v] = NoNodeType
    THEN [kind |-> kind, sel |-> sel, graph |-> NoGraph, raised |-> "KeyError"]
    ELSE [kind |-> kind, sel |-> sel, graph |-> Filtered(kind, sel, graph),
          raised |-> ""]

GrFrame == UNCHANGED not_gr_vars

\* pdg.add_program_node(node, node_type, segment)
GrAddNode ==
    /\ graph_calls < MaxGraphCalls
    /\ \E node \in GraphNodes, node_type \in NodeTypes, segment \in Selectors :
          pdg' = add_program_node(pdg, node, node_type, segment)
    /\ graph_calls' = graph_calls + 1
    /\ UNCHANGED graph_view
    /\ GrFrame

\* pdg.add_program_edge(tail, head, edge_type, edge_class, size)
GrAddEdge ==
    /\ graph_calls < MaxGraphCalls
    /\ \E tail \in GraphNodes, head \in GraphNodes, edge_type \in EdgeTypes,
          edge_class \in EdgeClasses, size \in EdgeSizes :
          pdg' = add_program_edge(pdg, tail, head, edge_type, edge_class, size)
    /\ graph_calls' = graph_calls + 1
    /\ UNCHANGED graph_view
    /\ GrFrame

\* One of the view functions called on pdg
GrView ==
    /\ graph_calls < MaxGraphCalls
    /\ \E kind \in ViewKinds : graph_view' = MakeView(kind, 1, pdg)
    /\ graph_calls' = graph_calls + 1
    /\ UNCHANGED pdg
    /\ GrFrame

\* An empty PDG
GrInit ==
    /\ pdg = NoGraph
    /\ cu_scores = <<>>
    /\ graph_view = NoView
    /\ graph_calls = 0
    /\ StIdle
    /\ MapIdle
    /\ OptIdle
    /\ IoIdle
    /\ EstIdle
    /\ DrvIdle
    /\ map_call = NoCall
    /\ FitIdle
    /\ GaIdle

GrNext == GrAddNode \/ GrAddEdge \/ GrView

SpecGraph == GrInit /\ [][GrNext]_vars

-----------------------------------------------------------------------------
(* fitness_function.py: DataFitnessFunction, and fitness_functions/          *)
(* modularity.py: Modularity, as an optimizer builds and calls it            *)

\* The keyword parameters of util.get_func_data_refs
GetFuncDataRefsKeywords == {"debug", "merge", "skip_sels"}

\* Calling util.get_func_data_refs(dfg, func_ea, **keywords): Python raises
\* TypeError for a keyword the function does not have, before its body runs
get_func_data_refs_call(keywords) ==
    IF keywords \subseteq GetFuncDataRefsKeywords THEN "" ELSE "TypeError"

\* The keywords DataFitnessFunction.__init__ calls get_func_data_refs with
DataRefsKeywords == {"flatten"}

\* Modularity.__init__ on data and init_state: the object built, or the
\* exception raised.  The loop over init_state.funcs calls get_func_data_refs
\* for each function.
new_modularity(graph, init_state) ==
    IF init_state.funcs # <<>> /\ get_func_data_refs_call(DataRefsKeywords) # ""
    THEN [raised |-> get_func_data_refs_call(DataRefsKeywords), self |-> NoFitness]
    ELSE [raised |-> "",
          self |-> [nodes |-> Range(init_state.funcs),
                    data_refs |-> [f \in Range(init_state.funcs) |-> {}],
                    in_degrees |-> [v \in Range(init_state.funcs) |->
                                       in_degree(graph, v)],
                    out_degrees |-> [v \in Range(init_state.funcs) |->
                                       out_degree(graph, v)],
                    m |-> Cardinality(graph.edges)]]

RECURSIVE SumOver(_, _)
\* sum(f[u] for u in S)
SumOver(f, S) ==
    IF S = {} THEN 0
    ELSE LET u == CHOOSE x \in S : TRUE
         IN  f[u] + SumOver(f, S \ {u})

\* Modularity._compute_modularity times m^2 (0 when m = 0, where the code
\* divides by zero)
self_compute_modularity(graph, self, community) ==
    LET link_sum == Cardinality({e \in graph.edges :
                                    e.tail \in community /\ e.head \in community})
    IN  link_sum * self.m
            - SumOver(self.out_degrees, community) * SumOver(self.in_degrees, community)

\* Modularity.score(state): the value times m^2, or the exception raised
self_score(graph, self, state) ==
    LET cus == to_cu_list(state)
        community(cu) == Range(cu) \cup UNION {self.data_refs[f] : f \in Range(cu)}
    IN  IF ~(Range(state.funcs) \subseteq DOMAIN self.data_refs)
        THEN [raised |-> "KeyError", value |-> 0]
        ELSE IF cus # <<>> /\ self.m = 0
        THEN [raised |-> "ZeroDivisionError", value |-> 0]
        ELSE [raised |-> "",
              value |-> SumSeq([c \in 1..Len(cus) |->
                           self_compute_modularity(graph, self, community(cus[c]))])]

FitFrame == UNCHANGED <<fit_init_state, not_fit_vars>>

\* fitness_function = self._fitness_function(self._data, self._cu_map, state)
FitNew ==
    /\ fit_pc = "new"
    /\ LET r == new_modularity(update_data(pdg), fit_init_state)
       IN  /\ fit_raised' = r.raised
           /\ fit_self' = r.self
           /\ fit_pc' = IF r.raised = "" THEN "ready" ELSE "raised"
    /\ UNCHANGED fit_scored
    /\ FitFrame

\* The states over the functions fs, and the state of no function
StatesOver(fs) ==
    IF fs = <<>> THEN {State(0, <<>>)}
    ELSE {State(b, fs) : b \in (2 ^ (Len(fs) - 1))..(2 ^ Len(fs) - 1)}

\* The states over a run of the functions fs
StatesOverRuns(fs) ==
    UNION {StatesOver(SubSeq(fs, i, j)) : i \in 1..(Len(fs) + 1), j \in 0..Len(fs)}

\* fitness_function.score(state)
FitScore ==
    /\ fit_pc \in {"ready", "scored"}
    /\ \E state \in StatesOverRuns(Sorted(Nodes(get_afcg(pdg)))) :
          LET r == self_score(update_data(pdg), fit_self, state)
          IN  /\ fit_raised' = r.raised
              /\ fit_scored' = [state |-> state, value |-> r.value]
              /\ fit_pc' = IF r.raised = "" THEN "scored" ELSE "raised"
    /\ UNCHANGED fit_self
    /\ FitFrame

\* The address of a data item the functions may reference, and its segment
DataEa == 1024
DataSelector == 2

\* The exported PDGs of the functions fs with up to max_edges control edges
\* and the data item DataEa, referenced by some of the functions
DataPdgs(fs, max_edges) ==
    {[segment |-> [v \in DOMAIN g.segment \cup {DataEa} |->
                      IF v = DataEa THEN DataSelector ELSE g.segment[v]],
      node_type |-> [v \in DOMAIN g.node_type \cup {DataEa} |->
                      IF v = DataEa THEN "DATA" ELSE g.node_type[v]],
      edges |-> g.edges \cup {Edge(f, DataEa, "CODE2DATA", "DATA_RELATION") : f \in refs}] :
        g \in ExportedPdgs(fs, [v \in Range(fs) |-> 1], 0, max_edges),
        refs \in SUBSET Range(fs) \ {{}}}

\* An optimizer about to build the fitness function of a pair of
\* compile-units, or of no function at all
FitInit ==
    /\ \E n \in 0..MaxFitFuncs :
          /\ pdg \in ExportedPdgs(FuncEas(n), [v \in Range(FuncEas(n)) |-> 1],
                                   0, MaxPdgEdges)
                     \cup DataPdgs(FuncEas(n), MaxPdgEdges)
          /\ fit_init_state \in StatesOverRuns(FuncEas(n))
    /\ cu_scores = <<>>
    /\ fit_pc = "new"
    /\ fit_self = NoFitness
    /\ fit_raised = ""
    /\ fit_scored = NoScore
    /\ StIdle
    /\ MapIdle
    /\ OptIdle
    /\ IoIdle
    /\ EstIdle
    /\ DrvIdle
    /\ map_call = NoCall
    /\ GrIdle
    /\ GaIdle

FitNext == FitNew \/ FitScore

SpecFit == FitInit /\ [][FitNext]_vars

-----------------------------------------------------------------------------
(* optimizers/genetic.py: the crossover, mutation and fitness callables *)

\* set_bits: the positions of the set bits of state below num_bits, ascending
set_bits_of(state, num_bits) == Sorted({i \in 0..(num_bits - 1) : Bit(state, i) = 1})

RECURSIVE OrBits(_, _)
\* state |= 1 << i for every i of bits
OrBits(state, bits) ==
    IF bits = {} THEN state
    ELSE LET i == CHOOSE x \in bits : TRUE
         IN  OrBits(SetBit(state, i), bits \ {i})

\* state ^ (1 << i)
XorBit(state, i) == IF Bit(state, i) = 1 THEN state - 2 ^ i ELSE state + 2 ^ i

\* max_bits_set of Genetic._optimize
max_bits_set_of(num_bits) == IF num_bits < 3 THEN num_bits ELSE 3

\* _crossover_func whose num_samples is random.randrange(n + 1)
crossover_func_upto(parents, num_bits, max_bits_set) ==
    LET set_bits == Chain([p \in 1..Len(parents) |-> set_bits_of(parents[p], num_bits)])
        n == IF Len(set_bits) < max_bits_set THEN Len(set_bits) ELSE max_bits_set
    IN  {OrBits(2 ^ (num_bits - 1), {set_bits[k] : k \in sample}) :
            sample \in {q \in SUBSET (1..Len(set_bits)) : Cardinality(q) <= n}}

\* _crossover_func: the children one pass of its for loop can make, for every
\* outcome of random.randrange and random.sample (a sample is a set of
\* positions of set_bits, which lists the bits of every parent); no child
\* when randrange(0) raises
crossover_func(parents, num_bits, max_bits_set) ==
    LET set_bits == Chain([p \in 1..Len(parents) |-> set_bits_of(parents[p], num_bits)])
        n == IF Len(set_bits) < max_bits_set THEN Len(set_bits) ELSE max_bits_set
    IN  {OrBits(2 ^ (num_bits - 1), {set_bits[k] : k \in sample}) :
            sample \in {q \in SUBSET (1..Len(set_bits)) : Cardinality(q) < n}}

\* _mutate up to its assertion: the values of new_state for every outcome of
\* the random calls (-1 when no branch assigns it); max_bits_set - 1 is at
\* most num_bits - 1, so random.sample never lacks elements
mutate(state, num_bits, max_bits_set) ==
    LET set_bits == set_bits_of(state, num_bits)
        num_bits_set == Len(set_bits)
        msb == 2 ^ (num_bits - 1)
        mov(i, j) == SetBit(XorBit(state, i), j)
    IN  IF num_bits_set = 1
        THEN {OrBits(msb, sample) :
                 sample \in {q \in SUBSET (0..(num_bits - 2)) : Cardinality(q) < max_bits_set}}
        ELSE IF num_bits_set = 2
        THEN (IF num_bits >= 3
              THEN {SetBit(state, i) : i \in (0..(num_bits - 1)) \ Range(set_bits)}
              ELSE {})
             \cup {XorBit(state, set_bits[1])}
             \cup (IF set_bits[1] + 1 < num_bits - 1
                   THEN {mov(set_bits[1], set_bits[1] + 1)} ELSE {})
             \cup (IF set_bits[1] > 0
                   THEN {mov(set_bits[1], set_bits[1] - 1)} ELSE {})
        ELSE IF num_bits_set = 3
        THEN {XorBit(state, set_bits[1]), XorBit(state, set_bits[2])}
             \cup (IF set_bits[2] + 1 < num_bits - 1
                   THEN {mov(set_bits[2], set_bits[2] + 1)}
                   ELSE IF set_bits[1] + 1 < num_bits - 1
                   THEN {mov(set_bits[1], set_bits[1] + 1)} ELSE {})
             \cup (IF set_bits[2] > 0
                   THEN {mov(set_bits[2], set_bits[2] - 1)}
                   ELSE IF set_bits[1] > 0
                   THEN {mov(set_bits[1], set_bits[1] - 1)} ELSE {})
        ELSE IF num_bits_set > 3
        THEN {OrBits(msb, {set_bits[k] : k \in sample}) :
                 sample \in {q \in SUBSET (1..num_bits_set) : Cardinality(q) < max_bits_set}}
        ELSE {-1}

\* The assertion of _crossover_func and of _fitness_function
popcount_ok(state) == 1 <= bit_count(state) /\ bit_count(state) <= 3

\* The assertion of _mutate
mutation_ok(new_state) == new_state # -1 /\ bit_count(new_state) <= 3

GaFrame == UNCHANGED <<ga_num_bits, not_ga_vars>>

\* pygad calls crossover_type on the parents: two children
GaCrossover ==
    /\ ga_pc = "select"
    /\ LET children == crossover_func(ga_parents, ga_num_bits, max_bits_set_of(ga_num_bits))
       IN  IF children = {}
           THEN /\ ga_pc' = "raised"
                /\ ga_raised' = "ValueError"
                /\ UNCHANGED ga_offspring
           ELSE \E c1, c2 \in children :
                  /\ ga_offspring' = <<c1, c2>>
                  /\ IF popcount_ok(c1) /\ popcount_ok(c2)
                     THEN ga_pc' = "crossed" /\ UNCHANGED ga_raised
                     ELSE ga_pc' = "raised" /\ ga_raised' = "AssertionError"
    /\ UNCHANGED ga_parents
    /\ GaFrame

\* pygad calls mutation_type on the children: _mutation_function mutates
\* the first two
GaMutate ==
    /\ ga_pc = "crossed"
    /\ \E m1 \in mutate(ga_offspring[1], ga_num_bits, max_bits_set_of(ga_num_bits)),
          m2 \in mutate(ga_offspring[2], ga_num_bits, max_bits_set_of(ga_num_bits)) :
         /\ ga_offspring' = <<m1, m2>>
         /\ IF mutation_ok(m1) /\ mutation_ok(m2)
            THEN ga_pc' = "mutated" /\ UNCHANGED ga_raised
            ELSE ga_pc' = "raised" /\ ga_raised' = "AssertionError"
    /\ UNCHANGED ga_parents
    /\ GaFrame

\* pygad scores the new solutions with _fitness_function, which asserts the
\* popcount, and selects two solutions of the population for the next mating
GaSelect ==
    /\ ga_pc = "mutated"
    /\ IF \A k \in 1..2 : popcount_ok(ga_offspring[k])
       THEN /\ \E p1, p2 \in Range(ga_parents) \cup Range(ga_offspring) :
                  ga_parents' = <<p1, p2>>
            /\ ga_pc' = "select"
            /\ UNCHANGED ga_raised
       ELSE /\ ga_pc' = "raised"
            /\ ga_raised' = "AssertionError"
            /\ UNCHANGED ga_parents
    /\ UNCHANGED ga_offspring
    /\ GaFrame

\* The states with bit num_bits - 1 set and one to three set bits
PairStates(num_bits) ==
    {b \in (2 ^ (num_bits - 1))..(2 ^ num_bits - 1) : popcount_ok(b)}

\* The callables for a pair of num_bits functions, and two such states as
\* the parents of the first mating
GaInit ==
    /\ ga_num_bits \in 2..MaxGaBits
    /\ ga_parents \in [1..2 -> PairStates(ga_num_bits)]
    /\ ga_offspring = <<>>
    /\ ga_pc = "select"
    /\ ga_raised = ""
    /\ StIdle
    /\ MapIdle
    /\ OptIdle
    /\ pdg = NoGraph
    /\ cu_scores = <<>>
    /\ IoIdle
    /\ EstIdle
    /\ DrvIdle
    /\ map_call = NoCall
    /\ GrIdle
    /\ FitIdle

GaNext == GaCrossover \/ GaMutate \/ GaSelect

SpecGa == GaInit /\ [][GaNext]_vars



-----------------------------------------------------------------------------
(* Claims about State *)

RECURSIVE Binomial(_, _)
Binomial(n, k) ==
    IF k = 0 THEN 1
    ELSE IF n = 0 THEN 0
    ELSE Binomial(n - 1, k - 1) + Binomial(n - 1, k)

\* C5: State round trip.  For every State s with bit n-1 set,
\* from_cu_list(s.to_cu_list()) equals s; for every split cus of a function
\* list into non-empty contiguous sublists, from_cu_list(cus).to_cu_list()
\* equals cus.
C5_RoundTrip ==
    /\ st_trail = <<"to_cu_list", "from_cu_list">> =>
          /\ st_state.bits = st_orig.bits
          /\ st_state.funcs = st_orig.funcs
    /\ st_trail = <<"from_cu_list", "to_cu_list">> => st_cu_list = st_orig

\* A split into three compile-units, one of them of several functions, went
\* through from_cu_list and to_cu_list.
C5_Witness ==
    /\ st_trail = <<"from_cu_list", "to_cu_list">>
    /\ Len(st_orig) = 3
    /\ Len(st_orig[2]) >= 2
    /\ st_cu_list = st_orig

\* C6: for every State s of width n with bit n-1 set, to_cu_list() returns
\* exactly popcount(s) non-empty sublists whose concatenation is the function
\* list in order, and function index p is the first element of a sublist
\* exactly when bit n-1-p of s is set.
C6_ToCuList ==
    st_trail = <<"to_cu_list">> =>
        LET s == st_orig
            n == Len(s.funcs)
        IN  /\ Len(st_cu_list) = bit_count(s.bits)
            /\ \A c \in 1..Len(st_cu_list) : Len(st_cu_list[c]) >= 1
            /\ Chain(st_cu_list) = s.funcs
            /\ \A p \in 0..(n - 1) :
                  (Bit(s.bits, n - 1 - p) = 1) <=>
                  (\E c \in 1..Len(st_cu_list) : st_cu_list[c][1] = s.funcs[p + 1])

\* to_cu_list was applied to a State with three set bits that are not adjacent.
C6_Witness ==
    /\ st_trail = <<"to_cu_list">>
    /\ Len(st_orig.funcs) = 5
    /\ st_orig.bits = 16 + 4 + 1
    /\ Len(st_cu_list) = 3

\* C7: for a State of width n and every k in 1..n, siblings(k) yields each
\* integer with bit n-1 set and exactly k set bits among bits 0..n-1 exactly
\* once and nothing else, so C(n-1, k-1) states; siblings(1) yields only the
\* State with bit n-1 alone.
C7_Siblings ==
    st_k # 0 =>
        LET n == Len(st_state.funcs)
            yielded == {st_sibs[i].bits : i \in 1..Len(st_sibs)}
            wanted == {b \in (2 ^ (n - 1))..(2 ^ n - 1) : bit_count(b) = st_k}
        IN  /\ yielded = wanted
            /\ Len(st_sibs) = Cardinality(wanted)
            /\ Len(st_sibs) = Binomial(n - 1, st_k - 1)
            /\ \A i \in 1..Len(st_sibs) : st_sibs[i].funcs = st_state.funcs
            /\ st_k = 1 => st_sibs = <<State(2 ^ (n - 1), st_state.funcs)>>

\* siblings(3) on a State of width 5 yielded its C(4, 2) = 6 states.
C7_Witness ==
    /\ st_k = 3
    /\ Len(st_state.funcs) = 5
    /\ Len(st_sibs) = 6

-----------------------------------------------------------------------------
(* Claims about Optimizer.optimize() and _update_cu_map *)

\* C1: starting from a map in which every CU id occupies exactly one maximal
\* run of func_to_cu, after any sequence of commits made by optimize() every
\* CU id still occupies exactly one maximal run, len(funcs) = len(func_to_cu)
\* and every function has exactly one label: the CUs walked from the first
\* one hold every function once, in order.
C1_Contiguous ==
    /\ Len(funcs) = Len(func_to_cu)
    /\ Contiguous(func_to_cu)
    /\ \A p \in 1..Len(func_to_cu) : func_to_cu[p] >= 0
    /\ LET cus == get_cus(funcs, func_to_cu)
       IN  Chain([c \in 1..Len(cus) |-> cus[c].funcs]) = funcs

\* A 3-way split was committed on a pair that has another CU beside it.
C1_Witness ==
    /\ last_update # NoUpdate
    /\ bit_count(last_update.state.bits) = 3
    /\ Len(last_update.state.funcs) < Len(funcs)
    /\ LenCUMap(func_to_cu) = 4

\* A round ends: with no commit it leaves modified_cus empty, with commits
\* it leaves modified_cus empty or a fingerprint not seen before.
C2_RoundEnd ==
    (opt_pc = "for" /\ opt_pc' = "while") =>
        IF num_changes = prev_num_changes
        THEN modified_cus' = {}
        ELSE \/ modified_cus' = {}
             \/ get_id(funcs, func_to_cu) \notin Range(cu_map_ids)

\* Every step of optimize() advances it: a new round, a CU of the round's
\* snapshot dealt with, the round's end, or the return.
C2_Advances ==
    \/ num_rounds' > num_rounds
    \/ num_rounds' = num_rounds /\ opt_pc = "for" /\ opt_pc' = "for"
          /\ todo' \subseteq todo /\ todo' # todo
    \/ num_rounds' = num_rounds /\ opt_pc = "for" /\ opt_pc' = "while"
    \/ num_rounds' = num_rounds /\ opt_pc = "while" /\ opt_pc' = "done"

\* optimize() has returned or has a next step: the loop test, a pass of the
\* for loop over a CU of the snapshot, the end of the round.
C2_NotStuck ==
    \/ opt_pc = "done"
    \/ opt_pc = "while"
    \/ opt_pc = "for" /\ todo = {}
    \/ \E cu_id \in todo : HasPair(cu_id) \/ HasNoPair(cu_id)

\* C2: optimize() terminates for every contiguous initial map and every
\* fitness function: a round with no commit leaves modified_cus empty, a
\* round with commits ends in a fingerprint never seen before or ends the
\* loop, so the number of rounds is at most the number of layouts of the
\* functions plus one; every step advances the loop, which is never stuck
\* before it returns.
C2_Terminates ==
    /\ [][C2_RoundEnd /\ C2_Advances]_vars
    /\ [](num_rounds <= 2 ^ (Len(funcs) - 1) + 1)
    /\ []C2_NotStuck

\* optimize() returned through the fingerprint exit: its last round made
\* commits, came back to a layout seen before, and left CUs in no rest.
C2_Witness ==
    /\ opt_pc = "done"
    /\ warned
    /\ num_rounds >= 2
    /\ LenCUMap(func_to_cu) >= 2
    /\ \E i \in 1..(Len(cu_map_ids) - 1) : cu_map_ids[i] = cu_map_ids[Len(cu_map_ids)]
    /\ \E c \in Range(func_to_cu) :
          get_next_cu(funcs, func_to_cu, get_cu_by_cu_id(funcs, func_to_cu, c)) # NoCu

\* C9: the first component returned by _update_cu_map is the number of
\* functions that moved from one compile-unit to another (the indices whose
\* label after the commit differs from the label before it), and optimize()
\* returns the total of these over the run.
C9_CountsMoves ==
    /\ last_update # NoUpdate =>
          last_update.num_changes =
              Cardinality({p \in 1..Len(func_to_cu) : func_to_cu[p] # last_update.before[p]})
    /\ opt_pc = "done" => num_changes = num_moved

-----------------------------------------------------------------------------
(* Claims about BruteForce *)

\* The adjacent pairs of the map: each CU that has a next one
AdjacentPairs(fs, ftc) ==
    LET cus == get_cus(fs, ftc)
    IN  {<<cus[c], cus[c + 1]>> : c \in 1..(Len(cus) - 1)}

\* No state with 1 to min(n, 3) set bits over the pair's functions scores
\* strictly higher than the pair's current state
PairIsOptimal(graph, pair) ==
    LET state == from_cu_list(<<pair[1].funcs, pair[2].funcs>>)
        states == AllSiblings(state)
    IN  \A i \in 1..Len(states) : score(graph, states[i]) <= score(graph, state)

\* C3: when BruteForce.optimize() returns without the "completed with
\* recursion" exit, for every adjacent pair of the final map no state with 1
\* to min(n, 3) set bits over the pair's functions scores strictly higher
\* than the pair's current 2-bit state.
C3_FixedPoint ==
    (opt_pc = "done" /\ ~warned) =>
        \A pair \in AdjacentPairs(funcs, func_to_cu) :
            PairIsOptimal(update_data(pdg), pair)

-----------------------------------------------------------------------------
(* Claims about CUMap persistence *)

\* C10: a CU map written with save_json and read back with CUMap.load from a
\* .json path has the same funcs and the same func_to_cu as the map that
\* was saved.
C10_JsonRoundTrip ==
    (loaded # NoLoad /\ file.format = "json" /\ file.suffix = ".json") =>
        /\ loaded.status = "ok"
        /\ loaded.funcs = saved.funcs
        /\ loaded.func_to_cu = saved.func_to_cu

-----------------------------------------------------------------------------
(* Claims about the estimators *)

\* The map in which the articulation points are the boundaries: the CU of a
\* function is the number of articulation points at or below its address
ApBoundaries(fs, points) ==
    renumber([p \in 1..Len(fs) |-> Cardinality({a \in points : a <= fs[p]})])

\* C4: with the functions sorted by address and the articulation points at
\* sorted indices a_0 < ... < a_(m-1), the CUs APSNSE and APSPSE return are
\* exactly the non-empty runs [0,a_0), [a_0,a_1), ..., [a_(m-2),a_(m-1))
\* followed by a final CU of its own made of the functions from the last
\* articulation point to the end; on the path f0 -> f1 -> f2 -> f3 -> f4
\* APSNSE returns the four CUs [f0], [f1], [f2], [f3,f4] with ids 0..3.
C4_ArticulationRuns ==
    (est_pc = "done" /\ est_kind \in {"APSNSE", "APSPSE"}) =>
        /\ func_to_cu = ApBoundaries(funcs, Range(aps))
        /\ (est_kind = "APSNSE" /\ pdg = PathPdg(5)) => func_to_cu = <<0, 1, 2, 3, 3>>

-----------------------------------------------------------------------------
(* Claims about the analyze() driver *)

\* The optimizer each accepted name stands for ("" for none and for a name
\* that is not accepted)
NamedOptimizer(name) ==
    CASE name = "brute" -> "BruteForce"
      [] name = "brute_fast" -> "BruteForceFast"
      [] name = "genetic" -> "Genetic"
      [] OTHER -> ""

\* analyze() got as far as choosing the optimizer, or past it
DrvChoseOptimizer ==
    /\ drv_pc \in {"done", "raised"}
    /\ drv_estimator # ""
    /\ \/ drv_args.optimizer = "none"
       \/ fitness_function_class(drv_args.fitness_function) # ""

\* C11: analyze accepts exactly the optimizer names none, brute_fast, brute
\* and genetic, each running the corresponding optimizer (brute_fast, the
\* default of the plugin, the BruteForceFast optimizer), and aborts with an
\* error for every other name.
C11_OptimizerNames ==
    /\ (drv_call.entry = "plugin" /\ drv_call.optimizer = "" /\ drv_args # NoArgs)
            => drv_args.optimizer = "brute_fast"
    /\ DrvChoseOptimizer =>
           IF drv_args.optimizer \in {"none", "brute_fast", "brute", "genetic"}
           THEN /\ drv_pc = "done"
                /\ drv_optimizer = NamedOptimizer(drv_args.optimizer)
           ELSE /\ drv_pc = "raised"
                /\ drv_raised = "ValueError: Invalid optimizer"

-----------------------------------------------------------------------------
(* Claims about the agglomerative estimator on two triangles *)

\* C12: on an AFCG that is the disjoint union of two triangles {f0,f1,f2} and
\* {f3,f4,f5} laid out consecutively, with no edge between them, AGGLNSE
\* returns exactly the two compile-units {f0,f1,f2} and {f3,f4,f5}.
C12_TwoTriangles ==
    (est_pc \in {"done", "raised"} /\ est_kind = "AGGLNSE" /\ pdg \in TrianglePdgs) =>
        /\ est_pc = "done"
        /\ funcs = FuncEas(6)
        /\ func_to_cu = <<0, 0, 0, 1, 1, 1>>

C12_Witness ==
    /\ est_pc = "done"
    /\ est_kind = "AGGLNSE"
    /\ pdg \in TrianglePdgs
    /\ aggl_num_rounds >= 2
    /\ Cardinality(DOMAIN cache) >= 2

-----------------------------------------------------------------------------
(* Claims about BruteForce on a map that is optimal already *)

\* Every adjacent pair of the map scores at least as high as every state
\* with 1 to min(n, 3) set bits over the pair
AllPairsOptimal ==
    \A pair \in AdjacentPairs(funcs, func_to_cu) : PairIsOptimal(update_data(pdg), pair)

\* C13: if in the initial CU map every adjacent pair is already optimal,
\* BruteForce.optimize() makes no commit: it returns 0 and func_to_cu is
\* unchanged.  As a step property: while no commit has been made and every
\* pair is optimal, no step changes func_to_cu or counts a change.
C13_NoCommit ==
    [][(opt_pc # "idle" /\ num_changes = 0 /\ last_update = NoUpdate /\ AllPairsOptimal)
          => (func_to_cu' = func_to_cu /\ num_changes' = 0 /\ last_update' = NoUpdate)]_vars

C13_Witness ==
    /\ opt_pc = "done"
    /\ num_changes = 0
    /\ last_update = NoUpdate
    /\ AllPairsOptimal
    /\ LenCUMap(func_to_cu) >= 3
    /\ Cardinality(DOMAIN cu_scores) >= 2

-----------------------------------------------------------------------------
(* Claims about the labels and the fingerprint of a compile-unit map *)

\* The positions where a new run of labels starts
RunStarts(ftc) == {i \in 1..Len(ftc) : i = 1 \/ ftc[i] # ftc[i - 1]}

\* The sizes of the runs of labels, in address order
RunLengths(ftc) ==
    LET starts == Sorted(RunStarts(ftc))
    IN  [r \in 1..Len(starts) |->
            (IF r = Len(starts) THEN Len(ftc) + 1 ELSE starts[r + 1]) - starts[r]]

\* C14: for a contiguous CU map with k CUs and arbitrary non-negative ids,
\* after renumber() the i-th run in address order has label i (the labels are
\* exactly 0..k-1), the run boundaries are unchanged, and a second renumber()
\* changes nothing.
C14_Renumber ==
    (/\ map_call.method = "renumber"
     /\ Contiguous(map_call.before)
     /\ \A i \in 1..Len(map_call.before) : map_call.before[i] >= 0) =>
        /\ Len(func_to_cu) = Len(map_call.before)
        /\ RunStarts(func_to_cu) = RunStarts(map_call.before)
        /\ \A i \in 1..Len(func_to_cu) :
              func_to_cu[i] = Cardinality({x \in RunStarts(map_call.before) : x <= i}) - 1
        /\ Range(func_to_cu) = 0..(LenCUMap(map_call.before) - 1)
        /\ renumber(func_to_cu) = func_to_cu

C14_Witness ==
    /\ map_call.method = "renumber"
    /\ map_call.before = <<2, 0, 0>>
    /\ func_to_cu = <<0, 1, 1>>

\* C15: for contiguous CU maps over function lists of the same length,
\* get_id() depends only on the sequence of CU sizes in address order: two
\* maps have the same fingerprint exactly when their size sequences are
\* equal, so relabelling CUs or renumber() does not change it and moving any
\* boundary does.
C15_Fingerprint ==
    /\ Contiguous(func_to_cu) =>
          \A other \in ContiguousMaps(Len(funcs), MaxMapCuId) :
              (get_id(funcs, func_to_cu) = get_id(funcs, other))
                  <=> (RunLengths(func_to_cu) = RunLengths(other))
    /\ (map_call.method = "renumber" /\ Contiguous(map_call.before)) =>
          get_id(funcs, func_to_cu) = get_id(funcs, map_call.before)
    /\ (/\ map_call.method = "set_cu_by_func_idx"
        /\ Contiguous(map_call.before) /\ Contiguous(func_to_cu)) =>
          (get_id(funcs, func_to_cu) = get_id(funcs, map_call.before))
              <=> (RunStarts(func_to_cu) = RunStarts(map_call.before))

\* A boundary moved: the call turned sizes 1, 2 into 2, 1
C15_Witness ==
    /\ map_call.method = "set_cu_by_func_idx"
    /\ map_call.before = <<0, 1, 1>>
    /\ func_to_cu = <<0, 0, 1>>
    /\ get_id(funcs, func_to_cu) = <<2, 1>>

-----------------------------------------------------------------------------
(* Claims about program graphs and their views *)

\* No two edges of pdg have the same tail, head and class
UniqueEdges ==
    \A e1, e2 \in pdg.edges :
        (e1.tail = e2.tail /\ e1.head = e2.head /\ e1.edge_class = e2.edge_class)
            => e1 = e2

\* add_program_edge leaves pdg as it is when the tail, head and class exist
RepeatedEdgeIgnored ==
    \A e \in pdg.edges, edge_type \in EdgeTypes, size \in EdgeSizes :
        add_program_edge(pdg, e.tail, e.head, edge_type, e.edge_class, size) = pdg

\* C16: after any sequence of add_program_node and add_program_edge calls,
\* for every ordered pair (tail, head) and every edge class the graph holds
\* at most one edge; an add_program_edge call whose (tail, head, class)
\* already exists leaves the graph unchanged, including the edge_type and
\* size of the existing edge (no step takes an edge away or changes one).
C16_UniqueEdges ==
    /\ [](UniqueEdges /\ RepeatedEdgeIgnored)
    /\ [][pdg.edges \subseteq pdg'.edges]_vars

C16_Witness ==
    /\ graph_calls = 3
    /\ Cardinality(pdg.edges) = 2
    /\ \E e1, e2 \in pdg.edges :
          e1 # e2 /\ e1.tail = e2.tail /\ e1.head = e2.head /\ e1.key # e2.key

\* C17: views are filtered live: a node or edge added to the underlying
\* graph after the view was created is seen through the view exactly when it
\* passes the view's filter, so the view always holds what its filters let
\* through of the graph as it is now.
C17_LiveViews ==
    (graph_view # NoView /\ graph_view.raised = "") =>
        graph_view.graph = Filtered(graph_view.kind, graph_view.sel, pdg)

-----------------------------------------------------------------------------
(* Claims about the modularity score *)

\* The sum over the compile-units of state of m * L_in - out * in, on graph
\* with m edges, the community of a compile-unit being its functions and
\* the data they reference
ModularityTimesM2(graph, data_refs, state) ==
    LET cus == to_cu_list(state)
        m == Cardinality(graph.edges)
        community(cu) == Range(cu) \cup UNION {data_refs[f] : f \in Range(cu)}
        term(c) ==
            m * Cardinality({e \in graph.edges : e.tail \in c /\ e.head \in c})
                - Cardinality({e \in graph.edges : e.tail \in c})
                    * Cardinality({e \in graph.edges : e.head \in c})
    IN  SumSeq([i \in 1..Len(cus) |-> term(community(cus[i]))])

\* C18: Modularity.score(state) equals the sum over the CUs of the state of
\* L_in/m - out*in/m^2 for the CU's community, m being the number of edges of
\* the PDG without SEQUENCE edges; in integers m^2 * score is the sum of
\* m*L_in - out*in.  Building the fitness function for a state and scoring
\* it raises nothing and returns that value.
C18_ModularityScore ==
    /\ (fit_pc = "raised" /\ fit_scored = NoScore) => fit_init_state.funcs = <<>>
    /\ (fit_pc = "scored" /\ fit_scored.state.funcs = fit_init_state.funcs) =>
          fit_scored.value =
              ModularityTimesM2(removed_sequence_edges_view(pdg),
                                [f \in Range(fit_init_state.funcs) |-> {}],
                                fit_scored.state)

-----------------------------------------------------------------------------
(* Claims about the score cache of the optimizers *)

\* The step is a commit of _optimize for the pair headed by the CU id
CommitFor(id) ==
    /\ last_update' # last_update
    /\ last_update'.cu.cu_id = id

\* C19: across the _optimize calls of one optimizer (BruteForce or Genetic)
\* the cached cu_scores[id], once set, stays set and never decreases, and
\* every commit for the pair headed by id replaces it with a strictly greater
\* value (greater than the score the call started from when id had no entry)
C19_ScoresGrow ==
    [][/\ \A id \in DOMAIN cu_scores :
             /\ id \in DOMAIN cu_scores'
             /\ cu_scores'[id] >= cu_scores[id]
             /\ CommitFor(id) => cu_scores'[id] > cu_scores[id]
       /\ \A id \in DOMAIN cu_scores' \ DOMAIN cu_scores :
             CommitFor(id) =>
                 cu_scores'[id] > score(update_data(pdg),
                                        from_cu_list(<<last_update'.cu.funcs,
                                                       last_update'.next_cu.funcs>>))]_vars

\* After the first round a commit for a pair replaced the cached score of
\* its first CU by the greater score of the committed state
C19_Witness ==
    /\ opt_pc # "idle"
    /\ last_update # NoUpdate
    /\ num_rounds >= 2
    /\ Cardinality(DOMAIN cu_scores) >= 2
    /\ LET id == last_update.cu.cu_id
           graph == update_data(pdg)
       IN  /\ id \in DOMAIN cu_scores
           /\ cu_scores[id] = score(graph, last_update.state)
           /\ cu_scores[id] > score(graph, from_cu_list(<<last_update.cu.funcs,
                                                          last_update.next_cu.funcs>>))

-----------------------------------------------------------------------------
(* Claims about the fingerprint exit of optimize() *)

\* The step ends a round
EndsRound == opt_pc = "for" /\ opt_pc' = "while"

\* C20: at the end of a round of optimize() in which at least one commit was
\* made, if cu_map.get_id() equals the fingerprint taken before the first
\* round or at the end of an earlier round, modified_cus is cleared ("completed
\* with recursion") and optimize() returns without calling _optimize again;
\* after a round with no commit, or with a fingerprint not seen before, this
\* exit is not taken.
C20_RecursionExit ==
    /\ [][EndsRound =>
             /\ Len(cu_map_ids) = num_rounds
             /\ ~warned
             /\ IF round_commits > 0 /\ get_id(funcs, func_to_cu) \in Range(cu_map_ids)
                THEN warned' /\ modified_cus' = {}
                ELSE ~warned' /\ modified_cus' = modified_cus]_vars
    /\ [][(opt_pc = "while" /\ modified_cus = {}) =>
             (opt_pc' = "done" /\ func_to_cu' = func_to_cu
                 /\ last_update' = last_update)]_vars
    /\ [](warned => opt_pc \in {"while", "done"} /\ modified_cus = {})

\* optimize() returned through the exit although CUs were still marked: the
\* last round committed and came back to the layout of two rounds before,
\* not to the one it started from
C20_Witness ==
    /\ opt_pc = "done"
    /\ warned
    /\ round_commits > 0
    /\ Len(cu_map_ids) >= 3
    /\ cu_map_ids[Len(cu_map_ids)] = cu_map_ids[Len(cu_map_ids) - 2]
    /\ cu_map_ids[Len(cu_map_ids)] # cu_map_ids[Len(cu_map_ids) - 1]

-----------------------------------------------------------------------------
(* Claims about _update_cu_map *)

\* The sublist of cus (1-based) that holds the function ea, 0 when none does
SublistOf(cus, ea) ==
    IF \E c \in 1..Len(cus) : ea \in Range(cus[c])
    THEN CHOOSE c \in 1..Len(cus) : ea \in Range(cus[c])
    ELSE 0

\* C21: _update_cu_map for an adjacent pair (cu, next_cu) and a state with k
\* set bits over their functions: k = 1 labels all of them cu.cu_id, next_cu's
\* id is gone from the map and -1 is returned; k = 2 labels the first sublist
\* cu.cu_id, the second next_cu.cu_id and returns -1; k = 3 labels the first
\* sublist cu.cu_id, the middle one a new id max(func_to_cu) + 1 that was not
\* in the map, the last one next_cu.cu_id, and returns the new id; labels
\* outside the pair are unchanged and the number of CUs changes by k - 2.
C21_UpdateCuMap ==
    last_update # NoUpdate =>
        LET u == last_update
            k == bit_count(u.state.bits)
            cus == to_cu_list(u.state)
            max_id == CHOOSE x \in Range(u.before) : \A y \in Range(u.before) : y <= x
            label(c) == IF c = 1 THEN u.cu.cu_id
                        ELSE IF c = k THEN u.next_cu.cu_id
                        ELSE max_id + 1
        IN  /\ u.state.funcs = u.cu.funcs \o u.next_cu.funcs
            /\ k \in 1..3
            /\ Len(cus) = k
            /\ \A p \in 1..Len(funcs) :
                  func_to_cu[p] = IF funcs[p] \in Range(u.state.funcs)
                                  THEN label(SublistOf(cus, funcs[p]))
                                  ELSE u.before[p]
            /\ k = 1 => u.next_cu.cu_id \notin Range(func_to_cu)
            /\ u.new_cu_id = IF k = 3 THEN max_id + 1 ELSE -1
            /\ k = 3 => u.new_cu_id \notin Range(u.before)
            /\ LenCUMap(func_to_cu) = LenCUMap(u.before) + k - 2

\* A 3-way split of a pair beside another CU, in a map whose ids have a gap:
\* the new id is not the number of CUs
C21_Witness ==
    /\ last_update # NoUpdate
    /\ bit_count(last_update.state.bits) = 3
    /\ Len(last_update.state.funcs) < Len(funcs)
    /\ last_update.new_cu_id > LenCUMap(last_update.before)
    /\ last_update.new_cu_id \in Range(func_to_cu)

-----------------------------------------------------------------------------
(* Claims about BruteForce._optimize and its score cache *)

\* The step is a pass of the for loop of optimize() that calls _optimize for
\* the pair headed by the CU id
OptimizesPair(id) ==
    /\ HasPair(id)
    /\ todo' = todo \ {id}

\* The state of the pair headed by the CU id in the current map
PairState(id) ==
    LET cu == get_cu_by_cu_id(funcs, func_to_cu, id)
        next_cu == get_next_cu(funcs, func_to_cu, cu)
    IN  from_cu_list(<<cu.funcs, next_cu.funcs>>)

\* C28: whenever _optimize takes the baseline score of a pair (cu, next_cu)
\* from the cache cu_scores[cu.cu_id], that value is the fitness score of the
\* pair's current layout, also after a neighbouring pair was re-partitioned
\* and changed the functions of cu or next_cu.
C28_CacheIsCurrent ==
    [][\A id \in todo :
          (OptimizesPair(id) /\ id \in DOMAIN cu_scores) =>
              cu_scores[id] = score(update_data(pdg), PairState(id))]_vars

\* The first state of the enumeration states with the greatest score
FirstBest(graph, states) ==
    LET i == CHOOSE a \in 1..Len(states) :
                /\ \A b \in 1..Len(states) : score(graph, states[b]) <= score(graph, states[a])
                /\ \A b \in 1..(a - 1) : score(graph, states[b]) < score(graph, states[a])
    IN  states[i]

\* C22: BruteForce._optimize on a pair retains a state of maximum score among
\* all states with 1 to min(n, 3) set bits (the first enumerated one on ties,
\* fewer bits first) and commits it exactly when its score is strictly greater
\* than the score of the pair's initial state and it differs from that state;
\* otherwise the CU map and cu_scores are left unchanged and (0, -1) is
\* returned.
C22_BruteForceCommit ==
    [][\A id \in todo :
          OptimizesPair(id) =>
              LET graph == update_data(pdg)
                  state == PairState(id)
                  cu == get_cu_by_cu_id(funcs, func_to_cu, id)
                  next_cu == get_next_cu(funcs, func_to_cu, cu)
                  best == FirstBest(graph, AllSiblings(state))
              IN  IF score(graph, best) > score(graph, state) /\ best.bits # state.bits
                  THEN /\ round_commits' = round_commits + 1
                       /\ last_update'.state = best
                       /\ func_to_cu' =
                              update_cu_map(funcs, func_to_cu, cu, next_cu, best).func_to_cu
                  ELSE /\ func_to_cu' = func_to_cu
                       /\ cu_scores' = cu_scores
                       /\ round_commits' = round_commits
                       /\ num_changes' = num_changes]_vars

-----------------------------------------------------------------------------
(* Claims about the ids of new CUs *)

\* C29: over a whole optimize() run, the id given to a CU created by a 3-way
\* split (get_next_cu_id) was never the id of a CU earlier in the run, CUs
\* that were merged away included, so a cu_scores entry or a modified_cus
\* entry left by a vanished CU is never attributed to a newly created CU.
C29_FreshCuId ==
    [][(round_commits' = round_commits + 1 /\ last_update'.new_cu_id >= 0) =>
           /\ last_update'.new_cu_id \notin seen_cu_ids
           /\ last_update'.new_cu_id \notin DOMAIN cu_scores
           /\ last_update'.new_cu_id \notin modified_cus]_vars

-----------------------------------------------------------------------------
(* Claims about walking the CUs *)

\* C30: for every contiguous CU map, walking from get_first_cu() with
\* get_next_cu() terminates and visits every CU exactly once in address
\* order, the visited bounds [i, j) partition [0, len(funcs)),
\* get_prev_cu(get_next_cu(c)) is c whenever get_next_cu(c) exists, and
\* get_cus(reverse=True) yields the same CUs in the opposite order.
C30_CuWalk ==
    (Len(func_to_cu) > 0 /\ Contiguous(func_to_cu)) =>
        LET cus == get_cus(funcs, func_to_cu)
            rev == get_cus_reverse(funcs, func_to_cu)
            k == Len(cus)
        IN  /\ k = LenCUMap(func_to_cu)
            /\ get_next_cu(funcs, func_to_cu, cus[k]) = NoCu
            /\ \A c, d \in 1..k : c # d => cus[c].cu_id # cus[d].cu_id
            /\ cus[1].bounds[1] = 0
            /\ cus[k].bounds[2] = Len(funcs)
            /\ \A c \in 1..k :
                  /\ cus[c].bounds[1] < cus[c].bounds[2]
                  /\ c < k => cus[c].bounds[2] = cus[c + 1].bounds[1]
                  /\ cus[c].funcs = SubSeq(funcs, cus[c].bounds[1] + 1, cus[c].bounds[2])
                  /\ \A p \in (cus[c].bounds[1] + 1)..cus[c].bounds[2] :
                        func_to_cu[p] = cus[c].cu_id
                  /\ c < k => get_prev_cu(funcs, func_to_cu,
                                          get_next_cu(funcs, func_to_cu, cus[c])) = cus[c]
            /\ get_prev_cu(funcs, func_to_cu, rev[Len(rev)]) = NoCu
            /\ rev = Reversed(cus)

\* A call left a contiguous map of two CUs whose ids descend, the first CU
\* holding two functions
C30_Witness ==
    /\ map_call.method = "set_cu_by_func_idx"
    /\ Contiguous(func_to_cu)
    /\ Len(get_cus(funcs, func_to_cu)) = 2
    /\ Len(get_cus(funcs, func_to_cu)[1].funcs) = 2
    /\ get_cus(funcs, func_to_cu)[1].cu_id > get_cus(funcs, func_to_cu)[2].cu_id

-----------------------------------------------------------------------------
(* Claims about the data closure of the fitness functions *)

RECURSIVE DfgReach(_, _)
\* The nodes that directed paths of the graph dfg reach from those of seen
DfgReach(dfg, seen) ==
    LET more == seen \cup {e.head : e \in {x \in dfg.edges : x.tail \in seen}}
    IN  IF more = seen THEN seen ELSE DfgReach(dfg, more)

\* The data nodes reachable from the function f along DFG edges
DataClosure(graph, f) ==
    {v \in DfgReach(get_dfg(graph), {f}) : graph.node_type[v] = "DATA"}

\* C27: for each function f of the state's function list, the data closure
\* D(f) used by the fitness function is exactly the set of data nodes
\* reachable from f along DFG edges minus the nodes of the function list; it
\* does not depend on the position of f in the list nor on the closures of
\* the other functions, so a data node reached by two functions belongs to
\* the closure of both.
C27_DataClosure ==
    fit_pc \notin {"idle", "new"} =>
        /\ DOMAIN fit_self.data_refs = Range(fit_init_state.funcs)
        /\ \A f \in Range(fit_init_state.funcs) :
              fit_self.data_refs[f] = DataClosure(pdg, f) \ Range(fit_init_state.funcs)

-----------------------------------------------------------------------------
(* Claims about the agglomerative estimators *)

\* C23: in the agglomerative estimator the cache entry of every CU whose
\* membership changed is invalidated: no acceptance decision compares against
\* a cached non-tree-edge count computed before the most recent move of a
\* function into or out of that CU (the CU that loses its first function when
\* a fold is accepted included).
C23_CacheInvalidated ==
    (est_pc = "inner" /\ next_func_idx < Len(funcs)) =>
        get_cu_by_func_idx(funcs, func_to_cu, func_idx).cu_id \notin cache_stale

\* The positions p with a CU boundary between the functions p and p + 1
Boundaries(ftc) == {p \in 1..(Len(ftc) - 1) : ftc[p] # ftc[p + 1]}

\* The distance the boundaries of ftc can still travel: n - p for each
\* boundary p of the n functions
BoundarySlack(ftc) == SumSeq([p \in 1..Len(ftc) |->
                                IF p \in Boundaries(ftc) THEN Len(ftc) - p ELSE 0])

\* One step of an agglomerative round: the next index grows, a fold that is
\* kept moves the boundary before the folded function behind it or removes
\* it, one that is not kept leaves every boundary, and the loop exits only
\* after a round that kept none
C24_Step ==
    (est_kind \in {"AGGLNSE", "AGGLPSE"} /\ est_pc = "inner" /\ Len(funcs) >= 2) =>
        /\ est_pc' = "inner" => next_func_idx' > next_func_idx
        /\ \/ /\ Boundaries(func_to_cu') = Boundaries(func_to_cu)
              /\ tmp_num_changes' = tmp_num_changes
           \/ /\ tmp_num_changes' = tmp_num_changes + 1
              /\ next_func_idx \in Boundaries(func_to_cu)
              /\ Boundaries(func_to_cu') =
                    (Boundaries(func_to_cu) \ {next_func_idx})
                        \cup ({next_func_idx + 1} \cap (1..(Len(funcs) - 1)))
        /\ est_pc' = "done" <=> (next_func_idx >= Len(funcs) /\ tmp_num_changes = 0)

\* The loop of an agglomerative estimator on two functions or more can take
\* its next step: it has not raised, and inside a round the two CUs exist and
\* the current one has its cache entry
C24_NotStuck ==
    (est_kind \in {"AGGLNSE", "AGGLPSE"} /\ Cardinality(Nodes(afcg)) >= 2) =>
        /\ est_pc \in {"start", "while", "inner", "done"}
        /\ (est_pc = "inner" /\ next_func_idx < Len(funcs)) =>
              /\ get_cu_by_func_idx(funcs, func_to_cu, func_idx) # NoCu
              /\ get_cu_by_func_idx(funcs, func_to_cu, next_func_idx) # NoCu
              /\ get_cu_by_func_idx(funcs, func_to_cu, func_idx).cu_id \in DOMAIN cache

\* C24: the agglomerative estimator terminates on every AFCG with at least
\* two functions: within a round the index of the next function to fold
\* strictly increases, every accepted fold moves a CU boundary towards higher
\* addresses or removes it and no step moves one back, so every round but
\* the last uses up some of the distance the boundaries can travel, the
\* number of rounds is bounded by it, and the loop exits after a round with
\* no accepted fold; the loop is never stuck before that.
C24_Terminates ==
    /\ [][C24_Step]_vars
    /\ []((est_kind \in {"AGGLNSE", "AGGLPSE"} /\ est_pc \in {"while", "inner", "done"}) =>
             aggl_num_rounds + BoundarySlack(func_to_cu)
                 <= (Len(funcs) * (Len(funcs) - 1)) \div 2
                        + (IF est_pc = "done" THEN 1 ELSE 0))
    /\ []C24_NotStuck

\* An agglomerative estimator returned after a round that folded functions
\* and a last round that folded none.
C24_Witness ==
    /\ est_pc = "done"
    /\ est_kind \in {"AGGLNSE", "AGGLPSE"}
    /\ aggl_num_rounds >= 2
    /\ tmp_num_changes = 0
    /\ Len(funcs) >= 3
    /\ LenCUMap(func_to_cu) < Len(funcs)

\* The ordered pairs (u, v) of functions with an arc u -> v of the AFCG that
\* joins the CUs a and b of ftc, in either direction
ArcsBetween(graph, fs, ftc, a, b) ==
    {uv \in Range(fs) \X Range(fs) :
        /\ uv[2] \in successors(graph, uv[1])
        /\ {CuIdOf(fs, ftc, uv[1]), CuIdOf(fs, ftc, uv[2])} = {a, b}}

\* C25: in the agglomerative estimator, after every fold attempt the CU graph
\* kept up to date by _remove_from_cu and _move_to_cu has the edges that
\* _build_cu_graph builds from the current map: two distinct CUs are joined
\* exactly when some arc of the AFCG joins their functions, the count of the
\* edge is the number of such arcs in either direction, no count is zero or
\* negative, no edge is a self-loop, and a fold that is not kept leaves the
\* CU graph it started from.
C25_CuGraphInSync ==
    /\ []((est_kind \in {"AGGLNSE", "AGGLPSE"} /\ est_pc \in {"while", "inner"}) =>
            LET built == build_cu_graph(afcg, funcs, func_to_cu)
            IN  /\ cu_graph.count = built.count
                /\ built.nodes = Range(func_to_cu)
                /\ built.nodes \subseteq cu_graph.nodes
                /\ \A a, b \in Range(func_to_cu) :
                      a # b =>
                          /\ has_edge(cu_graph, a, b) <=>
                                ArcsBetween(afcg, funcs, func_to_cu, a, b) # {}
                          /\ has_edge(cu_graph, a, b) =>
                                cu_graph.count[{a, b}] =
                                    Cardinality(ArcsBetween(afcg, funcs, func_to_cu, a, b))
                /\ \A k \in DOMAIN cu_graph.count :
                      Cardinality(k) = 2 /\ cu_graph.count[k] > 0)
    /\ [][(est_kind \in {"AGGLNSE", "AGGLPSE"} /\ est_pc = "inner" /\ est_pc' = "inner"
              /\ tmp_num_changes' = tmp_num_changes) =>
             (cu_graph' = cu_graph /\ func_to_cu' = func_to_cu)]_vars

\* A fold was kept that merged two counted edges into one of count two or
\* more, and another was not kept, with calls between CUs left.
C25_Witness ==
    /\ est_kind \in {"AGGLNSE", "AGGLPSE"}
    /\ est_pc = "inner"
    /\ tmp_num_changes >= 1
    /\ func_idx > 0
    /\ \E k \in DOMAIN cu_graph.count : cu_graph.count[k] >= 2
    /\ LenCUMap(func_to_cu) < Len(funcs)

-----------------------------------------------------------------------------
(* Claims about the genetic callables *)

\* C26: for every width num_bits >= 2 and parents with bit num_bits - 1 set
\* and one to three set bits, every child of the crossover function and every
\* state of the mutation function has bit num_bits - 1 set and one to three
\* set bits, whatever the random choices, so that no popcount assertion of
\* crossover, mutation or the fitness wrapper fails.
C26_ValidChildren ==
    ga_pc # "idle" =>
        /\ ga_raised = ""
        /\ ga_pc # "raised"
        /\ \A s \in Range(ga_parents) \cup Range(ga_offspring) :
              /\ s \in 0..(2 ^ ga_num_bits - 1)
              /\ Bit(s, ga_num_bits - 1) = 1
              /\ 1 <= bit_count(s) /\ bit_count(s) <= 3

\* Parents of two set bits each were crossed and the children mutated: one
\* child has two set bits, the other three, and neither is one of the parents.
C26_Witness ==
    /\ ga_pc = "mutated"
    /\ ga_num_bits >= 4
    /\ \A k \in 1..2 : bit_count(ga_parents[k]) = 2
    /\ bit_count(ga_offspring[1]) = 2
    /\ bit_count(ga_offspring[2]) = 3
    /\ Range(ga_offspring) \cap Range(ga_parents) = {}

=============================================================================
